---- MODULE Spec2Model ----
(***************************************************************************)
(* cburn: the observation daemon (internal/daemon, Service), the daemon    *)
(* lifecycle (cmd/daemon.go) and the data pipeline (internal/source,       *)
(* internal/store, internal/pipeline, the session browser).                *)
(*                                                                         *)
(* Spec           : one daemon process, its poller goroutine alone (Run -> *)
(*                  pollOnce -> publishEvent), one step per critical       *)
(*                  section of Service.mu.                                 *)
(* SpecStream     : the poller and the /v1/stream handler goroutines,      *)
(*                  interleaved at the same granularity.                   *)
(* FairSpecStream : SpecStream with the handlers scheduled fairly.         *)
(* SpecPid        : the PID file protocol of `cburn daemon`, several       *)
(*                  invocations interleaved at the granularity of file     *)
(*                  system calls.                                          *)
(* SpecStop       : `cburn daemon stop` against foreground daemons.        *)
(* SpecParse      : ParseFile on every session file of a few lines.        *)
(* SpecCache      : SaveSession, DeleteSession and LoadAllSessions of the  *)
(*                  processes sharing one cache, statement by statement.   *)
(* SpecLoad       : loads (LoadWithCache with its fall back to Load, or    *)
(*                  Load) over session files that change meanwhile.        *)
(* SpecParseErrors: ParseFile on files with damaged lines.                 *)
(* SpecCachedLoads: SpecCache without DeleteSession, over files of which   *)
(*                  two have the same name in different projects.          *)
(* SpecGroup      : groupSubagents on every short list of sessions.        *)
(* SpecPricing    : LookupPricingAt on every short sorted price list.      *)
(*                                                                         *)
(* Time is in milliseconds (0 is the zero time.Time); the time stamps of   *)
(* the daemon (Snapshot.At, Event.Timestamp, startedAt, lastPollAt) are    *)
(* not modelled; money (float64 USD) is modelled in integer units, so      *)
(* floating-point rounding is not.                                         *)
(***************************************************************************)
EXTENDS Integers, Sequences, FiniteSets, TLC

\* ---------------------------------------------------------------- bounds
\* Polls one daemon process makes.
MaxPolls == 3
\* Processes (pids) the PID file protocol is run by.
MaxProcs == 2
\* /v1/stream connections accepted by one daemon process.
MaxConns == 2
\* Largest sessions total the loaded data reaches.
MaxSessions == 1
\* Largest estimated cost the loaded data reaches.
MaxCost == 1
\* Largest --events-buffer value tried (0 stands for "configured < 1").
MaxEventsBuffer == 2
\* Capacity of a stream handler's channel: make(chan Event, 16) in the
\* source, scaled down so that a full channel is reached within MaxPolls.
SubChanCap == 1
\* Polls of a daemon process that stream clients connect to.
StreamPolls == 2
\* Polls of a daemon process in the specification with fairness.
FairPolls == 1
\* Lines of the session file given to ParseFile.
MaxLines == 3
\* Largest mtime_ns passed to SaveSession.
MaxMtime == 2
\* Loads (loadData calls, or polls of the daemon) run one after the other.
MaxLoads == 2
\* Changes made to the session files from outside while cburn runs.
MaxFsEvents == 1
\* Price versions in the price list of one model.
MaxVersions == 2
\* Latest effective date of a price version, in days (0 is the zero time).
MaxEffective == 3
\* Sessions handed to one call of groupSubagents.
MaxGroup == 3
\* Liveness probes `cburn daemon stop` makes before its deadline: 8 s of
\* probes 150 ms apart in the source, scaled down.
MaxStopPolls == 2

\* ------------------------------------------------------- program constants
\* New: cfg.EventsBuffer < 1 => 200
DefaultEventsBuffer == 200

VARIABLES
    \* ---- Service (one daemon process)
    configured,     \* Config.EventsBuffer as passed to New (--events-buffer)
    eventsBuffer,   \* s.cfg.EventsBuffer after New
    pollCount,      \* s.pollCount
    lastError,      \* s.lastError
    hasSnapshot,    \* s.hasSnapshot
    snapshot,       \* s.snapshot
    nextEventID,    \* s.nextEventID
    events,         \* s.events, the ring
    nextSubID,      \* s.nextSubID
    subs,           \* s.subs: subscriber id -> channel (named by its connection)
    \* ---- the poller goroutine (Run / pollOnce)
    pollPc,         \* "idle" | "loaded" | "publish"
    pollErr,        \* err of loadSessions ("" is nil)
    pollStats,      \* stats of pipeline.Aggregate over the loaded sessions
    pollEv,         \* ev, the event pollOnce hands to publishEvent
    \* ---- /v1/stream handlers, one per connection
    connPc,         \* "new" | "registered" | "streaming" | "done"
    connSubID,      \* id returned by addSubscriber
    connCtxDone,    \* r.Context() is cancelled
    chanBuf,        \* contents of ch, the handler's buffered channel
    connOut,        \* the events written to the client with writeSSE
    \* ---- history
    published,      \* every event passed to publishEvent, in call order
    connSeen,       \* s.nextEventID when the handler read its initial snapshot
    \* ---- the PID file protocol (cmd/daemon.go)
    pidFile,        \* content of flagDaemonPIDFile: Absent | Empty | PidOf(p)
    stateFile,      \* statePath(pidFile): Absent | PidOf(p), the pid in the sidecar
    procPc,         \* where each `cburn daemon` process is
    procMode,       \* "none" | "foreground" | "detach"
    procRead,       \* what its readPID returned: None | NotExist | Invalid | PidOf(q)
    procErr,        \* the error it exited with ("" for none)
    procListening,  \* its HTTP server holds its listen address
    \* ---- `cburn daemon stop` (runDaemonStop), one invocation
    stopPc,         \* where the invocation is
    stopPid,        \* what its readPID returned
    stopErr,        \* the error it returned ("" for nil)
    stopPolls,      \* liveness probes made so far
    stopSignals,    \* the signals it has sent, in order: <<signal, pid>> pairs
    \* ---- source.ParseFile on one session file
    parseLines,     \* the lines of the file, in file order
    parseRes,       \* the ParseResult, NoResult before the call
    \* ---- store.Cache, the SQLite database shared by every cburn process
    db,             \* the committed tables: sessions, session_models, file_tracker
    tx,             \* the open transaction of SaveSession: its tables and position
    dbRead,      \* the LoadAllSessions call in progress and its result
    saved,          \* history: the SessionStats of the last committed save, by session id
    \* ---- the data directory and the loads (loadData / Service.loadSessions)
    fs,             \* the session files: path -> lines, mtime, size, mode
    fsEvents,       \* how many times the files were changed from outside
    ld,             \* the load in progress: position, locals and result
    loadLog,        \* history: what each finished load returned, and over which files
    \* ---- the session browser (groupSubagents)
    groupIn,        \* the sessions handed to groupSubagents
    groupOut,       \* what groupSubagents returned: the parents and the subagent map
    \* ---- pricing (internal/config)
    defaultPricingHistory,  \* the package variable: model -> price versions
    lookupModel,    \* the model name passed to LookupPricingAt
    lookupAt,       \* the time passed to LookupPricingAt
    lookupRes       \* what LookupPricingAt returned

svcVars == <<configured, eventsBuffer, pollCount, lastError, hasSnapshot, snapshot, nextEventID,
             events, nextSubID, subs, pollPc, pollErr, pollStats, pollEv,
             connPc, connSubID, connCtxDone, chanBuf, connOut, published, connSeen>>

pidVars == <<pidFile, stateFile, procPc, procMode, procRead, procErr, procListening>>

stopVars == <<stopPc, stopPid, stopErr, stopPolls, stopSignals>>

parseVars == <<parseLines, parseRes>>

cacheVars == <<db, tx, dbRead, saved>>

loadVars == <<fs, fsEvents, ld, loadLog>>

groupVars == <<groupIn, groupOut>>

pricingVars == <<defaultPricingHistory, lookupModel, lookupAt, lookupRes>>

\* The state of the data pipeline (parser, cache, loads, grouping).
dataVars == <<parseVars, cacheVars, loadVars, groupVars, pricingVars>>

\* The state of the daemon and of its lifecycle commands.
daemonVars == <<svcVars, pidVars, stopVars>>

\* What the steps of the parser, and of the cache, leave alone.
nonParseVars == <<daemonVars, cacheVars, loadVars, groupVars, pricingVars>>
nonCacheVars == <<daemonVars, parseVars, loadVars, groupVars, pricingVars>>
nonGroupVars == <<daemonVars, parseVars, cacheVars, loadVars, pricingVars>>
nonPricingVars == <<daemonVars, parseVars, cacheVars, loadVars, groupVars>>
\* What the steps of a load leave alone, the committed tables apart.
nonLoadVars == <<daemonVars, parseVars, tx, dbRead, saved, groupVars, pricingVars>>

\* What the steps of the service, and of a `cburn daemon` start, leave alone.
nonSvcVars == <<pidVars, stopVars, dataVars>>
nonPidVars == <<svcVars, stopVars, dataVars>>

Conns == 1..MaxConns

\* ------------------------------------------------------------------ types

\* model.SummaryStats, the fields snapshotFromSummary reads.
MkStats(n, c, h) ==
    [TotalSessions |-> n, TotalPrompts |-> n, TotalAPICalls |-> n,
     TotalBilledTokens |-> 1000 * n, EstimatedCost |-> c, CacheHitRate |-> h,
     CostPerDay |-> c, TokensPerDay |-> 1000 * n, SessionsPerDay |-> n]

\* The summaries a poll can compute: n sessions worth 1000 tokens each, the
\* cost and the cache hit rate varying independently of the token totals.
StatsInputs == {MkStats(n, c, h) : n \in 0..MaxSessions, c \in 0..MaxCost, h \in {0, 50}}

\* The summaries polled while stream clients are connected: the empty data
\* directory and one session worth 1000 tokens.
StreamStatsInputs == {MkStats(0, 0, 0), MkStats(1, 1, 0)}

\* The errors pipeline.Load can return.
LoadErrors == {"scan failed"}

ZeroSnapshot ==
    [Sessions |-> 0, Prompts |-> 0, APICalls |-> 0, Tokens |-> 0,
     EstimatedCostUSD |-> 0, CacheHitRate |-> 0, CostPerDayUSD |-> 0,
     TokensPerDay |-> 0, SessionsPerDay |-> 0]

ZeroDelta ==
    [Sessions |-> 0, Prompts |-> 0, APICalls |-> 0, Tokens |-> 0, EstimatedCostUSD |-> 0]

ZeroEvent == [ID |-> 0, Type |-> "", Snapshot |-> ZeroSnapshot, Delta |-> ZeroDelta]

ZeroStats == MkStats(0, 0, 0)

\* ------------------------------------------------------- pure functions

snapshotFromSummary(stats) ==
    [Sessions |-> stats.TotalSessions,
     Prompts |-> stats.TotalPrompts,
     APICalls |-> stats.TotalAPICalls,
     Tokens |-> stats.TotalBilledTokens,
     EstimatedCostUSD |-> stats.EstimatedCost,
     CacheHitRate |-> stats.CacheHitRate,
     CostPerDayUSD |-> stats.CostPerDay,
     TokensPerDay |-> stats.TokensPerDay,
     SessionsPerDay |-> stats.SessionsPerDay]

\* Mutant of diffSnapshots: the usage of curr, whatever prev is.
diffSnapshots_FromZero(prev, curr) ==
    [Sessions |-> curr.Sessions,
     Prompts |-> curr.Prompts,
     APICalls |-> curr.APICalls,
     Tokens |-> curr.Tokens,
     EstimatedCostUSD |-> curr.EstimatedCostUSD]

\* Mutant of diffSnapshots: the operands swapped.
diffSnapshots_Swapped(prev, curr) ==
    [Sessions |-> prev.Sessions - curr.Sessions,
     Prompts |-> prev.Prompts - curr.Prompts,
     APICalls |-> prev.APICalls - curr.APICalls,
     Tokens |-> prev.Tokens - curr.Tokens,
     EstimatedCostUSD |-> prev.EstimatedCostUSD - curr.EstimatedCostUSD]

diffSnapshots(prev, curr) ==
    [Sessions |-> curr.Sessions - prev.Sessions,
     Prompts |-> curr.Prompts - prev.Prompts,
     APICalls |-> curr.APICalls - prev.APICalls,
     Tokens |-> curr.Tokens - prev.Tokens,
     EstimatedCostUSD |-> curr.EstimatedCostUSD - prev.EstimatedCostUSD]

isZero(d) ==
    /\ d.Sessions = 0
    /\ d.Prompts = 0
    /\ d.APICalls = 0
    /\ d.Tokens = 0
    /\ d.EstimatedCostUSD = 0

\* New: the EventsBuffer the service runs with, given the configured one.
NewEventsBuffer(n) ==
    IF n < 1 THEN DefaultEventsBuffer ELSE n

\* Mutant of RingAppend: a full ring is truncated from the tail.
RingAppend_KeepsOldest(ring, ev, cap) ==
    LET appended == Append(ring, ev)
    IN  IF Len(appended) > cap THEN SubSeq(appended, 1, cap) ELSE appended

\* s.events after append + truncate from the head.
RingAppend(ring, ev, cap) ==
    LET appended == Append(ring, ev)
    IN  IF Len(appended) > cap
        THEN SubSeq(appended, Len(appended) - cap + 1, Len(appended))
        ELSE appended

\* Mutant of TrySend: a full channel drops its oldest event to take the new one.
TrySend_DropsOldest(buf, ev) ==
    IF Len(buf) < SubChanCap THEN Append(buf, ev) ELSE Append(Tail(buf), ev)

\* select { case ch <- ev: default: } on a channel of capacity SubChanCap.
TrySend(buf, ev) ==
    IF Len(buf) < SubChanCap THEN Append(buf, ev) ELSE buf

\* ------------------------------------------------------------------ Init

SvcInit ==
    /\ configured \in 0..MaxEventsBuffer
    /\ eventsBuffer = NewEventsBuffer(configured)
    /\ pollCount = 0
    /\ lastError = ""
    /\ hasSnapshot = FALSE
    /\ snapshot = ZeroSnapshot
    /\ nextEventID = 0
    /\ events = <<>>
    /\ nextSubID = 0
    /\ subs = <<>>
    /\ pollPc = "idle"
    /\ pollErr = ""
    /\ pollStats = ZeroStats
    /\ pollEv = ZeroEvent
    /\ connPc = [h \in Conns |-> "new"]
    /\ connSubID = [h \in Conns |-> 0]
    /\ connCtxDone = [h \in Conns |-> FALSE]
    /\ chanBuf = [h \in Conns |-> <<>>]
    /\ connOut = [h \in Conns |-> <<>>]
    /\ published = <<>>
    /\ connSeen = [h \in Conns |-> 0]

\* ------------------------------------------------------------ the poller

cfgVars == <<configured, eventsBuffer>>
connVars == <<connPc, connSubID, connCtxDone, chanBuf, connOut, connSeen>>
stateVars == <<pollCount, lastError, hasSnapshot, snapshot, nextEventID>>

\* pollOnce, up to the first critical section: loadSessions, the filters and
\* pipeline.Aggregate run without the lock; Run starts the next poll only
\* when the previous one has returned.
PollLoadOk(stats) ==
    /\ pollPc = "idle"
    /\ pollPc' = "loaded"
    /\ pollErr' = ""
    /\ pollStats' = stats
    /\ UNCHANGED <<nonSvcVars, cfgVars, stateVars, events, nextSubID, subs, pollEv,
                   connVars, published>>

PollLoadFail(err) ==
    /\ pollPc = "idle"
    /\ pollPc' = "loaded"
    /\ pollErr' = err
    /\ pollStats' = ZeroStats
    /\ UNCHANGED <<nonSvcVars, cfgVars, stateVars, events, nextSubID, subs, pollEv,
                   connVars, published>>

\* Mutant of PollRecordError: the failed poll is not counted.
PollRecordError_NotCounted ==
    /\ pollPc = "loaded"
    /\ pollErr # ""
    /\ lastError' = pollErr
    /\ pollPc' = "idle"
    /\ pollErr' = ""
    /\ UNCHANGED <<nonSvcVars, cfgVars, pollCount, hasSnapshot, snapshot, nextEventID, events,
                   nextSubID, subs, pollStats, pollEv, connVars, published>>

\* pollOnce, err != nil: the critical section that records the error.
PollRecordError ==
    /\ pollPc = "loaded"
    /\ pollErr # ""
    /\ lastError' = pollErr
    /\ pollCount' = pollCount + 1
    /\ pollPc' = "idle"
    /\ pollErr' = ""
    /\ UNCHANGED <<nonSvcVars, cfgVars, hasSnapshot, snapshot, nextEventID, events, nextSubID,
                   subs, pollStats, pollEv, connVars, published>>

\* Mutant of NextEventID: the increment forgotten.
NextEventID_NoIncrement(cur) == cur

\* s.nextEventID++
NextEventID(cur) == cur + 1

\* Mutant of PollEvent: a usage_delta whenever the snapshot changed in any field.
PollEvent_AnyChange(prevExists, prev, snap, id) ==
    IF ~prevExists
    THEN [ID |-> id, Type |-> "snapshot", Snapshot |-> snap, Delta |-> ZeroDelta]
    ELSE IF prev # snap
         THEN [ID |-> id, Type |-> "usage_delta", Snapshot |-> snap,
               Delta |-> diffSnapshots(prev, snap)]
         ELSE ZeroEvent

\* The event pollOnce builds under the lock, or ZeroEvent when publish is false.
PollEvent(prevExists, prev, snap, id) ==
    IF ~prevExists
    THEN [ID |-> id, Type |-> "snapshot", Snapshot |-> snap, Delta |-> ZeroDelta]
    ELSE IF ~isZero(diffSnapshots(prev, snap))
         THEN [ID |-> id, Type |-> "usage_delta", Snapshot |-> snap,
               Delta |-> diffSnapshots(prev, snap)]
         ELSE ZeroEvent

\* pollOnce, err == nil: the critical section that replaces the snapshot and
\* assigns the event id.
PollUpdate ==
    /\ pollPc = "loaded"
    /\ pollErr = ""
    /\ LET snap == snapshotFromSummary(pollStats)
           id == NextEventID(nextEventID)
           ev == PollEvent(hasSnapshot, snapshot, snap, id)
           publish == ev # ZeroEvent
       IN  /\ hasSnapshot' = TRUE
           /\ snapshot' = snap
           /\ pollCount' = pollCount + 1
           /\ lastError' = ""
           /\ nextEventID' = IF publish THEN id ELSE nextEventID
           /\ pollEv' = ev
           /\ pollPc' = IF publish THEN "publish" ELSE "idle"
    /\ pollStats' = ZeroStats
    /\ UNCHANGED <<nonSvcVars, cfgVars, events, nextSubID, subs, pollErr, connVars, published>>

\* publishEvent(ev): one critical section: append, truncate, non-blocking send
\* to every subscriber.
publishEvent(ev) ==
    /\ events' = RingAppend(events, ev, eventsBuffer)
    /\ chanBuf' = [h \in Conns |->
                     IF \E id \in DOMAIN subs : subs[id] = h
                     THEN TrySend(chanBuf[h], ev)
                     ELSE chanBuf[h]]
    /\ published' = Append(published, ev)

\* pollOnce: if publish { s.publishEvent(ev) }
PollPublish ==
    /\ pollPc = "publish"
    /\ publishEvent(pollEv)
    /\ pollPc' = "idle"
    /\ pollEv' = ZeroEvent
    /\ UNCHANGED <<nonSvcVars, cfgVars, stateVars, nextSubID, subs, pollErr, pollStats,
                   connPc, connSubID, connCtxDone, connOut, connSeen>>

\* ------------------------------------------------- /v1/stream handlers

pollVars == <<pollPc, pollErr, pollStats, pollEv>>

\* addSubscriber(ch): s.nextSubID++; s.subs[id] = ch
addSubscriber(h) ==
    /\ nextSubID' = nextSubID + 1
    /\ subs' = subs @@ ((nextSubID + 1) :> h)
    /\ connSubID' = [connSubID EXCEPT ![h] = nextSubID + 1]

\* Mutant of removeSubscriber: the subscriber stays in the map.
removeSubscriber_Keeps(id) ==
    subs' = subs

\* removeSubscriber(id): delete(s.subs, id)
removeSubscriber(id) ==
    subs' = [i \in DOMAIN subs \ {id} |-> subs[i]]

\* snapshotStatus(): the Status served at /v1/status (the fields that are
\* not configuration or time stamps).
snapshotStatus ==
    [PollCount |-> pollCount,
     Summary |-> snapshot,
     LastError |-> lastError,
     EventCount |-> Len(events),
     SubscriberCount |-> Cardinality(DOMAIN subs)]

\* handleEvents: a copy of the ring.
handleEvents == events

\* handleStream: ch := make(chan Event, 16); id := s.addSubscriber(ch)
\* Connections are named in the order the daemon accepts them.
StreamConnect(h) ==
    /\ connPc[h] = "new"
    /\ h = nextSubID + 1
    /\ addSubscriber(h)
    /\ connPc' = [connPc EXCEPT ![h] = "registered"]
    /\ UNCHANGED <<nonSvcVars, cfgVars, stateVars, events, pollVars, connCtxDone, chanBuf,
                   connOut, published, connSeen>>

\* Mutant of StreamCurrent: the first event carries an empty summary.
StreamCurrent_Empty ==
    [ID |-> 0, Type |-> "snapshot", Snapshot |-> ZeroSnapshot, Delta |-> ZeroDelta]

\* handleStream: the event written first, built from snapshotStatus().Summary.
StreamCurrent ==
    [ID |-> 0, Type |-> "snapshot", Snapshot |-> snapshotStatus.Summary, Delta |-> ZeroDelta]

\* handleStream: writeSSE(w, current)
StreamSendCurrent(h) ==
    /\ connPc[h] = "registered"
    /\ connOut' = [connOut EXCEPT ![h] = Append(@, StreamCurrent)]
    /\ connSeen' = [connSeen EXCEPT ![h] = nextEventID]
    /\ connPc' = [connPc EXCEPT ![h] = "streaming"]
    /\ UNCHANGED <<nonSvcVars, cfgVars, stateVars, events, nextSubID, subs, pollVars,
                   connSubID, connCtxDone, chanBuf, published>>

\* handleStream, select: case ev := <-ch: writeSSE(w, ev)
StreamDeliver(h) ==
    /\ connPc[h] = "streaming"
    /\ chanBuf[h] # <<>>
    /\ connOut' = [connOut EXCEPT ![h] = Append(@, Head(chanBuf[h]))]
    /\ chanBuf' = [chanBuf EXCEPT ![h] = Tail(@)]
    /\ UNCHANGED <<nonSvcVars, cfgVars, stateVars, events, nextSubID, subs, pollVars,
                   connPc, connSubID, connCtxDone, published, connSeen>>

\* The client disconnects: net/http cancels the request context.
ClientDisconnect(h) ==
    /\ connPc[h] \in {"registered", "streaming"}
    /\ ~connCtxDone[h]
    /\ connCtxDone' = [connCtxDone EXCEPT ![h] = TRUE]
    /\ UNCHANGED <<nonSvcVars, cfgVars, stateVars, events, nextSubID, subs, pollVars,
                   connPc, connSubID, chanBuf, connOut, published, connSeen>>

\* handleStream, select: case <-r.Context().Done(): return, which runs the
\* deferred s.removeSubscriber(id). The handler's channel and the response
\* it wrote go away with it.
StreamExit(h) ==
    /\ connPc[h] = "streaming"
    /\ connCtxDone[h]
    /\ removeSubscriber(connSubID[h])
    /\ connPc' = [connPc EXCEPT ![h] = "done"]
    /\ chanBuf' = [chanBuf EXCEPT ![h] = <<>>]
    /\ connOut' = [connOut EXCEPT ![h] = <<>>]
    /\ connSeen' = [connSeen EXCEPT ![h] = 0]
    /\ UNCHANGED <<nonSvcVars, cfgVars, stateVars, events, nextSubID, pollVars,
                   connSubID, connCtxDone, published>>

\* ------------------------------------------- the PID file protocol
\* Each `cburn daemon` invocation is a process, named by its pid. Its steps are
\* the file system calls and probes of cmd/daemon.go; os.WriteFile is an open
\* that truncates followed by a write.

Pids == 1..MaxProcs

\* What a file holds, and what readPID returns.
Absent == [kind |-> "absent", pid |-> 0]
Empty == [kind |-> "empty", pid |-> 0]
PidOf(p) == [kind |-> "pid", pid |-> p]
None == [kind |-> "none", pid |-> 0]
NotExist == [kind |-> "notexist", pid |-> 0]
Invalid == [kind |-> "invalid", pid |-> 0]

PidInit ==
    /\ pidFile = Absent
    /\ stateFile = Absent
    /\ procPc = [p \in Pids |-> "unstarted"]
    /\ procMode = [p \in Pids |-> "none"]
    /\ procRead = [p \in Pids |-> None]
    /\ procErr = [p \in Pids |-> ""]
    /\ procListening = [p \in Pids |-> FALSE]

\* The pids that name a process of the system now.
ProcessExists(pid) ==
    procPc[pid] \notin {"unstarted", "exited", "failed", "crashed"}

\* proc.Signal(syscall.Signal(0)): nil for a process of the user, EPERM for a
\* process of another user, ESRCH when there is none.
Signal0(pid) ==
    IF ~ProcessExists(pid) THEN "ESRCH"
    ELSE IF procPc[pid] = "foreign" THEN "EPERM" ELSE "nil"

\* processAlive(pid)
processAlive(pid) ==
    Signal0(pid) = "nil" \/ Signal0(pid) = "EPERM"

\* readPID(path): the pid, or the error of os.ReadFile or of strconv.Atoi
\* (an empty file does not parse).
readPID ==
    IF pidFile = Absent THEN NotExist
    ELSE IF pidFile = Empty THEN Invalid
    ELSE pidFile

\* The user runs `cburn daemon` (runDaemonForeground) as process p; a detached
\* child is started by SpawnChild instead.
StartForeground(p) ==
    /\ procPc[p] = "unstarted"
    /\ procPc' = [procPc EXCEPT ![p] = "ensure"]
    /\ procMode' = [procMode EXCEPT ![p] = "foreground"]
    /\ UNCHANGED <<nonPidVars, pidFile, stateFile, procRead, procErr, procListening>>

\* The user runs `cburn daemon --detach` (startDaemonDetached) as process p.
StartDetached(p) ==
    /\ procPc[p] = "unstarted"
    /\ procPc' = [procPc EXCEPT ![p] = "ensure"]
    /\ procMode' = [procMode EXCEPT ![p] = "detach"]
    /\ UNCHANGED <<nonPidVars, pidFile, stateFile, procRead, procErr, procListening>>

\* ensureDaemonNotRunning: pid, err := readPID(pidFile) and the branches on err.
EnsureReadPID(p) ==
    /\ procPc[p] = "ensure"
    /\ procRead' = [procRead EXCEPT ![p] = readPID]
    /\ procPc' = [procPc EXCEPT ![p] =
                    IF readPID = NotExist THEN "checked"
                    ELSE IF readPID = Invalid THEN "failed"
                    ELSE "probe"]
    /\ procErr' = [procErr EXCEPT ![p] =
                    IF readPID = Invalid THEN "invalid pid" ELSE @]
    /\ UNCHANGED <<nonPidVars, pidFile, stateFile, procMode, procListening>>

\* ensureDaemonNotRunning: if processAlive(pid) { return error }
EnsureProbe(p) ==
    /\ procPc[p] = "probe"
    /\ IF processAlive(procRead[p].pid)
       THEN /\ procPc' = [procPc EXCEPT ![p] = "failed"]
            /\ procErr' = [procErr EXCEPT ![p] = "daemon already running"]
       ELSE /\ procPc' = [procPc EXCEPT ![p] = "rmpid"]
            /\ procErr' = procErr
    /\ UNCHANGED <<nonPidVars, pidFile, stateFile, procMode, procRead, procListening>>

\* ensureDaemonNotRunning: _ = os.Remove(pidFile)
EnsureRemovePID(p) ==
    /\ procPc[p] = "rmpid"
    /\ pidFile' = Absent
    /\ procPc' = [procPc EXCEPT ![p] = "rmstate"]
    /\ UNCHANGED <<nonPidVars, stateFile, procMode, procRead, procErr, procListening>>

\* ensureDaemonNotRunning: _ = os.Remove(statePath(pidFile)); return nil
EnsureRemoveState(p) ==
    /\ procPc[p] = "rmstate"
    /\ stateFile' = Absent
    /\ procPc' = [procPc EXCEPT ![p] = "checked"]
    /\ UNCHANGED <<nonPidVars, pidFile, procMode, procRead, procErr, procListening>>

\* startDaemonDetached after the check: cmd.Start() of the same binary with
\* --child, which runs runDaemonForeground as a new process; the parent returns.
SpawnChild(p, child) ==
    /\ procPc[p] = "checked"
    /\ procMode[p] = "detach"
    /\ child # p
    /\ procPc[child] = "unstarted"
    /\ procPc' = [procPc EXCEPT ![p] = "exited", ![child] = "ensure"]
    /\ procMode' = [procMode EXCEPT ![child] = "foreground"]
    /\ procRead' = [procRead EXCEPT ![p] = None]
    /\ UNCHANGED <<nonPidVars, pidFile, stateFile, procErr, procListening>>

\* writePID, first half: os.WriteFile opens the file with O_CREATE|O_TRUNC.
WritePIDOpen(p) ==
    /\ procPc[p] = "checked"
    /\ procMode[p] = "foreground"
    /\ pidFile' = Empty
    /\ procPc' = [procPc EXCEPT ![p] = "wpid"]
    /\ procRead' = [procRead EXCEPT ![p] = None]
    /\ UNCHANGED <<nonPidVars, stateFile, procMode, procErr, procListening>>

\* writePID, second half: the pid is written.
WritePIDWrite(p) ==
    /\ procPc[p] = "wpid"
    /\ pidFile' = PidOf(p)
    /\ procPc' = [procPc EXCEPT ![p] = "wstate"]
    /\ UNCHANGED <<nonPidVars, stateFile, procMode, procRead, procErr, procListening>>

\* _ = writeState(statePath(flagDaemonPIDFile), state)
writeState(p) ==
    /\ procPc[p] = "wstate"
    /\ stateFile' = PidOf(p)
    /\ procPc' = [procPc EXCEPT ![p] = "run"]
    /\ UNCHANGED <<nonPidVars, pidFile, procMode, procRead, procErr, procListening>>

\* svc.Run: the server goroutine is started and pollOnce is called. bound is
\* whether ListenAndServe gets the address: it can fail only while another
\* daemon process is listening (on the same --addr).
Run(p, bound) ==
    /\ procPc[p] = "run"
    /\ ~bound => \E q \in Pids \ {p} : procListening[q]
    /\ procListening' = [procListening EXCEPT ![p] = bound]
    /\ procPc' = [procPc EXCEPT ![p] = "running"]
    /\ UNCHANGED <<nonPidVars, pidFile, stateFile, procMode, procRead, procErr>>

\* Run returns: the error of ListenAndServe arrives on errCh.
RunListenError(p) ==
    /\ procPc[p] = "running"
    /\ ~procListening[p]
    /\ procErr' = [procErr EXCEPT ![p] = "daemon http server"]
    /\ procPc' = [procPc EXCEPT ![p] = "cleanstate"]
    /\ UNCHANGED <<nonPidVars, pidFile, stateFile, procMode, procRead, procListening>>

\* Run returns: SIGINT or SIGTERM cancels ctx and the server is shut down.
RunSignalled(p) ==
    /\ procPc[p] = "running"
    /\ procListening' = [procListening EXCEPT ![p] = FALSE]
    /\ procPc' = [procPc EXCEPT ![p] = "cleanstate"]
    /\ UNCHANGED <<nonPidVars, pidFile, stateFile, procMode, procRead, procErr>>

\* runDaemonForeground returns: defer os.Remove(statePath(flagDaemonPIDFile))
CleanupState(p) ==
    /\ procPc[p] = "cleanstate"
    /\ stateFile' = Absent
    /\ procPc' = [procPc EXCEPT ![p] = "cleanpid"]
    /\ UNCHANGED <<nonPidVars, pidFile, procMode, procRead, procErr, procListening>>

\* runDaemonForeground returns: defer os.Remove(flagDaemonPIDFile); exit.
CleanupPID(p) ==
    /\ procPc[p] = "cleanpid"
    /\ pidFile' = Absent
    /\ procPc' = [procPc EXCEPT ![p] = IF procErr[p] = "" THEN "exited" ELSE "failed"]
    /\ UNCHANGED <<nonPidVars, stateFile, procMode, procRead, procErr, procListening>>

\* The process is killed (SIGKILL, power loss): no deferred call runs.
Killed(p) ==
    /\ procPc[p] \in {"ensure", "probe", "rmpid", "rmstate", "checked", "wpid", "wstate",
                      "run", "running", "cleanstate", "cleanpid"}
    /\ procPc' = [procPc EXCEPT ![p] = "crashed"]
    /\ procListening' = [procListening EXCEPT ![p] = FALSE]
    /\ procRead' = [procRead EXCEPT ![p] = None]
    /\ UNCHANGED <<nonPidVars, pidFile, stateFile, procMode, procErr>>

\* The kernel gives the pid of a dead daemon to a process of another user.
PidReused(p) ==
    /\ procPc[p] = "crashed"
    /\ procPc' = [procPc EXCEPT ![p] = "foreign"]
    /\ UNCHANGED <<nonPidVars, pidFile, stateFile, procMode, procRead, procErr, procListening>>

PidNext ==
    \/ \E p \in Pids : StartForeground(p)
    \/ \E p \in Pids : StartDetached(p)
    \/ \E p \in Pids : EnsureReadPID(p)
    \/ \E p \in Pids : EnsureProbe(p)
    \/ \E p \in Pids : EnsureRemovePID(p)
    \/ \E p \in Pids : EnsureRemoveState(p)
    \/ \E p, child \in Pids : SpawnChild(p, child)
    \/ \E p \in Pids : WritePIDOpen(p)
    \/ \E p \in Pids : WritePIDWrite(p)
    \/ \E p \in Pids : writeState(p)
    \/ \E p \in Pids, bound \in BOOLEAN : Run(p, bound)
    \/ \E p \in Pids : RunListenError(p)
    \/ \E p \in Pids : RunSignalled(p)
    \/ \E p \in Pids : CleanupState(p)
    \/ \E p \in Pids : CleanupPID(p)
    \/ \E p \in Pids : Killed(p)
    \/ \E p \in Pids : PidReused(p)


\* ------------------------------------------------- `cburn daemon stop`
\* runDaemonStop, one invocation, its steps interleaved with those of the
\* daemon processes. Time is counted in liveness probes: the deadline passes
\* after MaxStopPolls probes that found the process alive.

StopInit ==
    /\ stopPc = "unstarted"
    /\ stopPid = None
    /\ stopErr = ""
    /\ stopPolls = 0
    /\ stopSignals = <<>>

\* The user runs `cburn daemon stop`.
StopStart ==
    /\ stopPc = "unstarted"
    /\ stopPc' = "read"
    /\ UNCHANGED <<svcVars, dataVars, pidVars, stopPid, stopErr, stopPolls, stopSignals>>

\* pid, err := readPID(flagDaemonPIDFile); any error is "daemon is not running".
StopReadPID ==
    /\ stopPc = "read"
    /\ IF readPID \in {NotExist, Invalid}
       THEN /\ stopPc' = "failed"
            /\ stopErr' = "daemon is not running"
            /\ stopPid' = stopPid
       ELSE /\ stopPc' = "signal"
            /\ stopErr' = stopErr
            /\ stopPid' = readPID
    /\ UNCHANGED <<svcVars, dataVars, pidVars, stopPolls, stopSignals>>

\* What SIGTERM does to process q. Between signal.NotifyContext and the
\* deferred cancel() it cancels ctx, and Run returns (RunSignalled); before
\* and after, the default disposition ends the process with no deferred call
\* run. A process in "run" is on either side of signal.NotifyContext.
Sigterm(q, killed) ==
    /\ procPc[q] = "running" => ~killed
    /\ procPc[q] \notin {"run", "running"} => killed
    /\ IF killed
       THEN /\ procPc' = [procPc EXCEPT ![q] = "crashed"]
            /\ procListening' = [procListening EXCEPT ![q] = FALSE]
            /\ procRead' = [procRead EXCEPT ![q] = None]
       ELSE UNCHANGED <<procPc, procListening, procRead>>

\* proc.Signal(syscall.SIGTERM): an error (no such process, or a process of
\* another user) ends stop.
StopSignal(killed) ==
    /\ stopPc = "signal"
    /\ stopSignals' = Append(stopSignals, <<"SIGTERM", stopPid.pid>>)
    /\ IF Signal0(stopPid.pid) = "nil"
       THEN /\ Sigterm(stopPid.pid, killed)
            /\ stopPc' = "poll"
            /\ stopErr' = stopErr
       ELSE /\ ~killed
            /\ stopPc' = "failed"
            /\ stopErr' = "signal daemon process"
            /\ UNCHANGED <<procPc, procListening, procRead>>
    /\ UNCHANGED <<svcVars, dataVars, pidFile, stateFile, procMode, procErr, stopPid, stopPolls>>

\* The loop body before the deadline: if !processAlive(pid) { ... }
StopPoll ==
    /\ stopPc = "poll"
    /\ stopPolls' = stopPolls + 1
    /\ stopPc' = IF processAlive(stopPid.pid) THEN "sleep" ELSE "rmpid"
    /\ UNCHANGED <<svcVars, dataVars, pidVars, stopPid, stopErr, stopSignals>>

\* time.Sleep(150 * time.Millisecond), and the deadline has not passed.
StopSleep ==
    /\ stopPc = "sleep"
    /\ stopPolls < MaxStopPolls
    /\ stopPc' = "poll"
    /\ UNCHANGED <<svcVars, dataVars, pidVars, stopPid, stopErr, stopPolls, stopSignals>>

\* A stop that escalates at the deadline: SIGKILL, then the removal of the files.
StopTimeout_Escalates ==
    /\ stopPc = "sleep"
    /\ stopPolls >= MaxStopPolls
    /\ stopSignals' = Append(stopSignals, <<"SIGKILL", stopPid.pid>>)
    /\ stopPc' = "rmpid"
    /\ UNCHANGED <<svcVars, dataVars, pidVars, stopPid, stopErr, stopPolls>>

\* time.Sleep, and the deadline has passed: "daemon did not exit in time".
StopTimeout ==
    /\ stopPc = "sleep"
    /\ stopPolls >= MaxStopPolls
    /\ stopPc' = "failed"
    /\ stopErr' = "did not exit in time"
    /\ UNCHANGED <<svcVars, dataVars, pidVars, stopPid, stopPolls, stopSignals>>

\* _ = os.Remove(flagDaemonPIDFile)
StopRemovePID ==
    /\ stopPc = "rmpid"
    /\ pidFile' = Absent
    /\ stopPc' = "rmstate"
    /\ UNCHANGED <<svcVars, dataVars, stateFile, procPc, procMode, procRead, procErr, procListening,
                   stopPid, stopErr, stopPolls, stopSignals>>

\* _ = os.Remove(statePath(flagDaemonPIDFile)); return nil
StopRemoveState ==
    /\ stopPc = "rmstate"
    /\ stateFile' = Absent
    /\ stopPc' = "done"
    /\ UNCHANGED <<svcVars, dataVars, pidFile, procPc, procMode, procRead, procErr, procListening,
                   stopPid, stopErr, stopPolls, stopSignals>>

StopNext ==
    \/ StopStart
    \/ StopReadPID
    \/ \E killed \in BOOLEAN : StopSignal(killed)
    \/ StopPoll
    \/ StopSleep
    \/ StopTimeout
    \/ StopRemovePID
    \/ StopRemoveState

\* ------------------------------------------------------ session files
\* A session file is a sequence of lines. A line is what ParseFile reads of
\* it: its top-level type, whether json.Unmarshal accepts it, its timestamp
\* (milliseconds, 0 when absent), its durationMs, and message.id, message.model
\* and message.usage (NoUsage when absent). Time is in milliseconds, the
\* zero time.Time is 0; costs are in units of 10^-8 USD.

NoUsage == [present |-> FALSE]

\* RawUsage with the legacy cache_creation_input_tokens only.
UsageLegacy ==
    [present |-> TRUE, InputTokens |-> 1, OutputTokens |-> 2,
     HasCacheCreation |-> FALSE, Ephemeral5m |-> 0, Ephemeral1h |-> 0,
     CacheCreationInputTokens |-> 4, CacheReadInputTokens |-> 8]

\* RawUsage with the cache_creation breakdown.
UsageSplit ==
    [present |-> TRUE, InputTokens |-> 16, OutputTokens |-> 32,
     HasCacheCreation |-> TRUE, Ephemeral5m |-> 64, Ephemeral1h |-> 128,
     CacheCreationInputTokens |-> 192, CacheReadInputTokens |-> 256]

Usages == {UsageLegacy, UsageSplit}

\* Model names as they appear in message.model.
RawModels == {"claude-opus-4-6", "claude-opus-4-6-20260101", "claude-haiku-4-5"}

MessageIDs == {"msg1", "msg2"}

UserLine(ts) ==
    [type |-> "user", valid |-> TRUE, ts |-> ts, badTs |-> FALSE, durationMs |-> 0,
     id |-> "", model |-> "", usage |-> NoUsage]

AssistantLine(ts, id, model, usage) ==
    [type |-> "assistant", valid |-> TRUE, ts |-> ts, badTs |-> FALSE, durationMs |-> 0,
     id |-> id, model |-> model, usage |-> usage]

\* An assistant line json.Unmarshal rejects.
MalformedLine ==
    [type |-> "assistant", valid |-> FALSE, ts |-> 0, badTs |-> FALSE, durationMs |-> 0,
     id |-> "", model |-> "", usage |-> NoUsage]

\* A line of a type ParseFile skips ("progress", "summary", ...).
OtherLine ==
    [type |-> "", valid |-> TRUE, ts |-> 0, badTs |-> FALSE, durationMs |-> 0,
     id |-> "", model |-> "", usage |-> NoUsage]

\* A line that is not JSON: extractTopLevelType finds no type in it.
NotJSONLine == [OtherLine EXCEPT !.valid = FALSE]

\* A user line cut short after its type; the byte scan finds no timestamp.
MalformedUserLine == [UserLine(0) EXCEPT !.valid = FALSE]

\* `line` with a timestamp that time.Parse(RFC3339Nano) rejects: the
\* extraction reports no timestamp, the parsed time is the zero time.
BadTimestamp(line) == [line EXCEPT !.ts = 0, !.badTs = TRUE]

\* Damaged lines, and two sound ones.
DamagedLineInputs ==
    {NotJSONLine, MalformedUserLine, MalformedLine, BadTimestamp(UserLine(0)),
     BadTimestamp(AssistantLine(0, "msg1", "claude-opus-4-6", UsageLegacy)),
     UserLine(1500), AssistantLine(2500, "msg2", "claude-haiku-4-5", UsageSplit)}

\* The lines the files are made of.
LineInputs ==
    {UserLine(1500), MalformedLine, OtherLine, AssistantLine(2500, "", "claude-opus-4-6", UsageLegacy)}
        \cup {AssistantLine(2500, id, m, u) :
                id \in MessageIDs, m \in RawModels, u \in Usages \cup {NoUsage}}

\* Sequences over S of length at most n.
SeqUpTo(S, n) == UNION {[1..k -> S] : k \in 0..n}

\* ------------------------------------------------------------- pricing
\* config.DefaultPricing in units of 10^-8 USD per token (USD per MTok * 100),
\* the models the files name.
DefaultPricing ==
    [m \in {"claude-opus-4-6", "claude-haiku-4-5"} |->
        IF m = "claude-opus-4-6"
        THEN [InputPerMTok |-> 500, OutputPerMTok |-> 2500, CacheWrite5mPerMTok |-> 625,
              CacheWrite1hPerMTok |-> 1000, CacheReadPerMTok |-> 50]
        ELSE [InputPerMTok |-> 100, OutputPerMTok |-> 500, CacheWrite5mPerMTok |-> 125,
              CacheWrite1hPerMTok |-> 200, CacheReadPerMTok |-> 10]]

\* makeDefaultPricingHistory: one version per model, with a zero EffectiveFrom.
makeDefaultPricingHistory(base) ==
    [m \in DOMAIN base |-> <<[EffectiveFrom |-> 0, Pricing |-> base[m]]>>]

hasPricingModel(m) == m \in DOMAIN defaultPricingHistory \/ m \in DOMAIN DefaultPricing

\* The names that end in a segment of eight or more digits, without it.
DatedNames ==
    [raw \in {"claude-opus-4-6-20260101", "test-model-20250101"} |->
        IF raw = "claude-opus-4-6-20260101" THEN "claude-opus-4-6" ELSE "test-model"]

\* The name without its last segment when that is a date (eight digits or
\* more), the name itself otherwise.
StripDate(raw) ==
    IF raw \in DOMAIN DatedNames THEN DatedNames[raw] ELSE raw

NormalizeModelName(raw) ==
    IF hasPricingModel(raw) THEN raw
    ELSE IF StripDate(raw) # raw /\ hasPricingModel(StripDate(raw)) THEN StripDate(raw)
    ELSE raw

\* The zero ModelPricing.
ZeroPricing ==
    [InputPerMTok |-> 0, OutputPerMTok |-> 0, CacheWrite5mPerMTok |-> 0,
     CacheWrite1hPerMTok |-> 0, CacheReadPerMTok |-> 0]

\* !at.Before(v.EffectiveFrom), with After in the place of !Before.
Reached_Strict(v, at) == v.EffectiveFrom = 0 \/ at > v.EffectiveFrom

\* v.EffectiveFrom.IsZero() || !at.Before(v.EffectiveFrom.UTC())
Reached(v, at) == v.EffectiveFrom = 0 \/ ~(at < v.EffectiveFrom)

\* for _, v := range versions { if reached { selected = v.Pricing; continue }; break }
RECURSIVE SelectVersion(_, _, _)
SelectVersion(versions, at, selected) ==
    IF versions = <<>> THEN selected
    ELSE IF Reached(Head(versions), at)
         THEN SelectVersion(Tail(versions), at, Head(versions).Pricing)
         ELSE selected

\* LookupPricingAt(model, at): the pricing and whether the model is known.
LookupPricingAt(m, at) ==
    LET normalized == NormalizeModelName(m) IN
    IF normalized \notin DOMAIN defaultPricingHistory \/ defaultPricingHistory[normalized] = <<>>
    THEN IF normalized \in DOMAIN DefaultPricing
         THEN [pricing |-> DefaultPricing[normalized], ok |-> TRUE]
         ELSE [pricing |-> ZeroPricing, ok |-> FALSE]
    ELSE LET versions == defaultPricingHistory[normalized] IN
         IF at = 0 THEN [pricing |-> versions[Len(versions)].Pricing, ok |-> TRUE]
         ELSE [pricing |-> SelectVersion(versions, at, versions[1].Pricing), ok |-> TRUE]

\* CalculateCostAt, in units of 10^-8 USD.
CalculateCostAt(m, at, inputTokens, outputTokens, cache5m, cache1h, cacheRead) ==
    LET found == LookupPricingAt(m, at) IN
    IF ~found.ok THEN 0
    ELSE LET pricing == found.pricing IN
         inputTokens * pricing.InputPerMTok
            + outputTokens * pricing.OutputPerMTok
            + cache5m * pricing.CacheWrite5mPerMTok
            + cache1h * pricing.CacheWrite1hPerMTok
            + cacheRead * pricing.CacheReadPerMTok

\* The price lists as the package initialises them, and no lookup made.
NoLookup == [called |-> FALSE]

PricingRest ==
    /\ defaultPricingHistory = makeDefaultPricingHistory(DefaultPricing)
    /\ lookupModel = ""
    /\ lookupAt = 0
    /\ lookupRes = NoLookup

\* The ModelPricing of the i-th version of the price list under test.
TestPricing(i) ==
    [InputPerMTok |-> 100 * i, OutputPerMTok |-> 0, CacheWrite5mPerMTok |-> 0,
     CacheWrite1hPerMTok |-> 0, CacheReadPerMTok |-> 0]

\* The price lists of up to MaxVersions versions, sorted by EffectiveFrom.
PriceLists ==
    {[i \in 1..Len(q) |-> [EffectiveFrom |-> q[i], Pricing |-> TestPricing(i)]] :
        q \in {x \in SeqUpTo(0..MaxEffective, MaxVersions) :
                  \A i, j \in 1..Len(x) : i < j => x[i] <= x[j]}}

\* The model names looked up.
LookupModels ==
    {"claude-opus-4-6", "claude-opus-4-6-20260101", "test-model", "test-model-20250101",
     "unknown-model"}

\* A lookup on the price lists as they are.
Lookup ==
    /\ ~lookupRes.called
    /\ lookupRes' = [called |-> TRUE, pricing |-> LookupPricingAt(lookupModel, lookupAt).pricing,
                     ok |-> LookupPricingAt(lookupModel, lookupAt).ok]
    /\ UNCHANGED <<nonPricingVars, defaultPricingHistory, lookupModel, lookupAt>>

\* ------------------------------------------------------------ ParseFile

ZeroUsage ==
    [APICalls |-> 0, InputTokens |-> 0, OutputTokens |-> 0, CacheCreation5mTokens |-> 0,
     CacheCreation1hTokens |-> 0, CacheReadTokens |-> 0, EstimatedCost |-> 0]

\* The DiscoveredFile of a main session file.
MainFile(path, sid) ==
    [Path |-> path, SessionID |-> sid, IsSubagent |-> FALSE, ParentSession |-> ""]

\* updateTimeRange
MinTime(minTime, ts) == IF minTime = 0 \/ ts < minTime THEN ts ELSE minTime
MaxTime(maxTime, ts) == IF maxTime = 0 \/ ts > maxTime THEN ts ELSE maxTime

\* The model.APICall built from an assistant line with usage.
APICallOf(line) ==
    LET u == line.usage IN
    [MessageID |-> line.id, Model |-> line.model, Timestamp |-> line.ts,
     InputTokens |-> u.InputTokens, OutputTokens |-> u.OutputTokens,
     CacheCreation5mTokens |->
        IF u.HasCacheCreation THEN u.Ephemeral5m
        ELSE IF u.CacheCreationInputTokens > 0 THEN u.CacheCreationInputTokens ELSE 0,
     CacheCreation1hTokens |-> IF u.HasCacheCreation THEN u.Ephemeral1h ELSE 0,
     CacheReadTokens |-> u.CacheReadInputTokens]

ScanInit ==
    [calls |-> <<>>, userMessages |-> 0, parseErrors |-> 0, totalDuration |-> 0,
     minTime |-> 0, maxTime |-> 0]

\* A store that keeps the entry a message id already has.
MapStore_KeepFirst(calls, id, call) ==
    [k \in DOMAIN calls \cup {id} |-> IF k \in DOMAIN calls THEN calls[k] ELSE call]

\* calls[msg.ID] = &model.APICall{...}: a map store, which overwrites.
MapStore(calls, id, call) ==
    [k \in DOMAIN calls \cup {id} |-> IF k = id THEN call ELSE calls[k]]

\* One turn of the scanner loop on `line`.
ScanLine(st, line) ==
    IF line.type = "" THEN st
    ELSE IF line.type = "user"
    THEN [st EXCEPT !.userMessages = @ + 1,
                    !.minTime = IF line.ts # 0 THEN MinTime(@, line.ts) ELSE @,
                    !.maxTime = IF line.ts # 0 THEN MaxTime(@, line.ts) ELSE @]
    ELSE IF line.type = "system"
    THEN [st EXCEPT !.minTime = IF line.ts # 0 THEN MinTime(@, line.ts) ELSE @,
                    !.maxTime = IF line.ts # 0 THEN MaxTime(@, line.ts) ELSE @,
                    !.totalDuration = @ + line.durationMs]
    ELSE IF ~line.valid
    THEN [st EXCEPT !.parseErrors = @ + 1]
    ELSE LET timed ==
                [st EXCEPT !.minTime = IF line.ts # 0 THEN MinTime(@, line.ts) ELSE @,
                           !.maxTime = IF line.ts # 0 THEN MaxTime(@, line.ts) ELSE @,
                           !.totalDuration = @ + line.durationMs]
         IN IF line.id = "" \/ ~line.usage.present THEN timed
            ELSE [timed EXCEPT !.calls = MapStore(@, line.id, APICallOf(line))]

RECURSIVE ScanLines(_, _)
ScanLines(st, lines) ==
    IF lines = <<>> THEN st ELSE ScanLines(ScanLine(st, Head(lines)), Tail(lines))

\* mu.X += call.X on stats.Models[normalized], created when missing.
AddToModels(models, normalized, call, cost) ==
    LET mu == IF normalized \in DOMAIN models THEN models[normalized] ELSE ZeroUsage
        sum == [APICalls |-> mu.APICalls + 1,
                InputTokens |-> mu.InputTokens + call.InputTokens,
                OutputTokens |-> mu.OutputTokens + call.OutputTokens,
                CacheCreation5mTokens |-> mu.CacheCreation5mTokens + call.CacheCreation5mTokens,
                CacheCreation1hTokens |-> mu.CacheCreation1hTokens + call.CacheCreation1hTokens,
                CacheReadTokens |-> mu.CacheReadTokens + call.CacheReadTokens,
                EstimatedCost |-> mu.EstimatedCost + cost]
    IN [k \in DOMAIN models \cup {normalized} |-> IF k = normalized THEN sum ELSE models[k]]

\* for _, call := range calls { ... }: the calls are added to the session
\* totals and to their model's rollup, in the order the map yields them.
RECURSIVE RollUp(_, _, _)
RollUp(stats, calls, ids) ==
    IF ids = {} THEN stats
    ELSE LET id == CHOOSE x \in ids : TRUE
             call == calls[id]
             cost == CalculateCostAt(call.Model, call.Timestamp, call.InputTokens,
                                     call.OutputTokens, call.CacheCreation5mTokens,
                                     call.CacheCreation1hTokens, call.CacheReadTokens)
         IN RollUp([stats EXCEPT
                        !.InputTokens = @ + call.InputTokens,
                        !.OutputTokens = @ + call.OutputTokens,
                        !.CacheCreation5mTokens = @ + call.CacheCreation5mTokens,
                        !.CacheCreation1hTokens = @ + call.CacheCreation1hTokens,
                        !.CacheReadTokens = @ + call.CacheReadTokens,
                        !.EstimatedCost = @ + cost,
                        !.Models = AddToModels(@, NormalizeModelName(call.Model), call, cost)],
                   calls, ids \ {id})

\* The SessionStats ParseFile builds after the scan.
StatsOf(df, st) ==
    RollUp([SessionID |-> df.SessionID, FilePath |-> df.Path, IsSubagent |-> df.IsSubagent,
            ParentSession |-> df.ParentSession,
            StartTime |-> st.minTime, EndTime |-> st.maxTime,
            DurationSecs |->
                IF st.totalDuration > 0 THEN st.totalDuration \div 1000
                ELSE IF st.minTime # 0 /\ st.maxTime # 0
                     THEN (st.maxTime - st.minTime) \div 1000 ELSE 0,
            UserMessages |-> st.userMessages,
            APICalls |-> Cardinality(DOMAIN st.calls),
            InputTokens |-> 0, OutputTokens |-> 0, CacheCreation5mTokens |-> 0,
            CacheCreation1hTokens |-> 0, CacheReadTokens |-> 0, EstimatedCost |-> 0,
            Models |-> <<>>],
           st.calls, DOMAIN st.calls)

\* ParseFile(df) on a file that is read to its end.
ParseFile(df, lines) ==
    LET st == ScanLines(ScanInit, lines) IN
    [Stats |-> StatsOf(df, st), ParseErrors |-> st.parseErrors, Err |-> ""]

NoResult == [Err |-> "not parsed"]

ParseInit ==
    /\ parseLines = <<>>
    /\ parseRes = NoResult

\* The file ParseFile is called on in the parser's specification.
ParsedFile == MainFile("p1/s1.jsonl", "s1")

\* A call of ParseFile.
Parse ==
    /\ parseRes = NoResult
    /\ parseRes' = ParseFile(ParsedFile, parseLines)
    /\ UNCHANGED <<nonParseVars, parseLines>>

\* ---------------------------------------------------------- the cache
\* store.Cache: three tables. sessions is keyed by session_id, session_models
\* by (session_id, model), file_tracker by file_path. A table is a function
\* from its keys to its rows. SaveSession works on the tables of its
\* transaction, which replace the committed ones at tx.Commit(); every other
\* statement reads and writes the committed tables.

EmptyDB == [sessions |-> <<>>, models |-> <<>>, tracker |-> <<>>]

\* The text of an empty start_time or end_time column.
EmptyText == -1

\* t.UTC().Format(time.RFC3339): the layout has no fractional seconds.
FormatRFC3339(t) == t \div 1000

\* time.Parse(time.RFC3339, text)
ParseRFC3339(text) == text * 1000

\* The sessions row SaveSession writes for s (the columns LoadAllSessions reads).
RowOf(s) ==
    [session_id |-> s.SessionID, file_path |-> s.FilePath, is_subagent |-> s.IsSubagent,
     parent_session |-> s.ParentSession,
     start_time |-> IF s.StartTime # 0 THEN FormatRFC3339(s.StartTime) ELSE EmptyText,
     end_time |-> IF s.EndTime # 0 THEN FormatRFC3339(s.EndTime) ELSE EmptyText,
     duration_secs |-> s.DurationSecs, user_messages |-> s.UserMessages,
     api_calls |-> s.APICalls, input_tokens |-> s.InputTokens,
     output_tokens |-> s.OutputTokens, cache_creation_5m |-> s.CacheCreation5mTokens,
     cache_creation_1h |-> s.CacheCreation1hTokens, cache_read_tokens |-> s.CacheReadTokens,
     estimated_cost |-> s.EstimatedCost]

\* The SessionStats LoadAllSessions scans from a sessions row, Models empty.
StatsOfRow(row) ==
    [SessionID |-> row.session_id, FilePath |-> row.file_path,
     IsSubagent |-> row.is_subagent, ParentSession |-> row.parent_session,
     StartTime |-> IF row.start_time # EmptyText THEN ParseRFC3339(row.start_time) ELSE 0,
     EndTime |-> IF row.end_time # EmptyText THEN ParseRFC3339(row.end_time) ELSE 0,
     DurationSecs |-> row.duration_secs, UserMessages |-> row.user_messages,
     APICalls |-> row.api_calls, InputTokens |-> row.input_tokens,
     OutputTokens |-> row.output_tokens, CacheCreation5mTokens |-> row.cache_creation_5m,
     CacheCreation1hTokens |-> row.cache_creation_1h, CacheReadTokens |-> row.cache_read_tokens,
     EstimatedCost |-> row.estimated_cost,
     Models |-> <<>>]

\* f without the keys in S.
Without(f, S) == [k \in DOMAIN f \ S |-> f[k]]

\* INSERT OR REPLACE INTO sessions ...
UpsertSession(t, s) ==
    [t EXCEPT !.sessions = MapStore(@, s.SessionID, RowOf(s))]

\* DELETE FROM session_models WHERE session_id = ?
DeleteModels(t, sid) ==
    [t EXCEPT !.models = Without(@, {k \in DOMAIN @ : k[1] = sid})]

\* INSERT INTO session_models ... for one entry of s.Models
InsertModel(t, sid, m, mu) ==
    [t EXCEPT !.models = MapStore(@, <<sid, m>>, mu)]

\* INSERT OR REPLACE INTO file_tracker ...
UpsertTracker(t, path, mtime, size) ==
    [t EXCEPT !.tracker = MapStore(@, path, [MtimeNs |-> mtime, SizeBytes |-> size])]

\* for modelName, mu := range s.Models { INSERT ... }
RECURSIVE InsertModels(_, _, _)
InsertModels(t, s, ms) ==
    IF ms = {} THEN t
    ELSE LET m == CHOOSE x \in ms : TRUE IN
         InsertModels(InsertModel(t, s.SessionID, m, s.Models[m]), s, ms \ {m})

\* The tables after a SaveSession(s, mtime, size) that commits.
ApplySave(t, s, mtime, size) ==
    UpsertTracker(
        InsertModels(DeleteModels(UpsertSession(t, s), s.SessionID), s, DOMAIN s.Models),
        s.FilePath, mtime, size)

\* A delete without the cascade.
ApplyDelete_NoCascade(t, sid) ==
    [t EXCEPT !.sessions = Without(@, {sid})]

\* DELETE FROM sessions WHERE session_id = ?, with the ON DELETE CASCADE of
\* session_models (foreign_keys is on).
ApplyDelete(t, sid) ==
    [t EXCEPT !.sessions = Without(@, {sid}),
              !.models = Without(@, {k \in DOMAIN @ : k[1] = sid})]

\* No transaction is open; err is what the last SaveSession returned.
NoTx == [pc |-> "none", err |-> ""]

NoRead == [pc |-> "idle"]

CacheInit ==
    /\ db = EmptyDB
    /\ tx = NoTx
    /\ dbRead = NoRead
    /\ saved = <<>>

\* The session files whose statistics are saved.
FileS1 == MainFile("p1/s1.jsonl", "s1")
FileS2 == MainFile("p1/s2.jsonl", "s2")

\* Their contents over time: s1 is a prompt and a call, then grows by a call
\* to another model; s2 is a call stamped on a whole second.
LinesS1 == <<UserLine(1500), AssistantLine(2500, "msg1", "claude-opus-4-6-20260101", UsageLegacy)>>
LinesS1Grown == Append(LinesS1, AssistantLine(2500, "msg2", "claude-haiku-4-5", UsageSplit))
LinesS2 == <<AssistantLine(3000, "msg1", "claude-opus-4-6", UsageSplit)>>

\* The SessionStats passed to SaveSession.
SaveInputs ==
    {ParseFile(FileS1, LinesS1).Stats, ParseFile(FileS1, LinesS1Grown).Stats,
     ParseFile(FileS2, LinesS2).Stats}

\* The size of every file, which the cache only stores.
FileSize == 10

\* SaveSession: tx, err := c.db.Begin()
SaveBegin(s, mtime, size) ==
    /\ tx.pc = "none"
    /\ tx' = [pc |-> "sessions", tables |-> db, s |-> s, mtime |-> mtime, size |-> size,
              todo |-> DOMAIN s.Models]
    /\ UNCHANGED <<nonCacheVars, db, dbRead, saved>>

\* tx.Exec(`INSERT OR REPLACE INTO sessions ...`)
SaveUpsertSession ==
    /\ tx.pc = "sessions"
    /\ tx' = [tx EXCEPT !.pc = "delete", !.tables = UpsertSession(@, tx.s)]
    /\ UNCHANGED <<nonCacheVars, db, dbRead, saved>>

\* tx.Exec("DELETE FROM session_models WHERE session_id = ?")
SaveDeleteModels ==
    /\ tx.pc = "delete"
    /\ tx' = [tx EXCEPT !.pc = "models", !.tables = DeleteModels(@, tx.s.SessionID)]
    /\ UNCHANGED <<nonCacheVars, db, dbRead, saved>>

\* One turn of the loop over s.Models, in the order the map yields.
SaveInsertModel(m) ==
    /\ tx.pc = "models"
    /\ m \in tx.todo
    /\ tx' = [tx EXCEPT !.tables = InsertModel(@, tx.s.SessionID, m, tx.s.Models[m]),
                        !.todo = @ \ {m}]
    /\ UNCHANGED <<nonCacheVars, db, dbRead, saved>>

\* tx.Exec(`INSERT OR REPLACE INTO file_tracker ...`)
SaveUpsertTracker ==
    /\ tx.pc = "models"
    /\ tx.todo = {}
    /\ tx' = [tx EXCEPT !.pc = "commit",
                        !.tables = UpsertTracker(@, tx.s.FilePath, tx.mtime, tx.size)]
    /\ UNCHANGED <<nonCacheVars, db, dbRead, saved>>

\* A commit that installs only the sessions table of the transaction.
SaveCommit_SessionsOnly ==
    /\ tx.pc = "commit"
    /\ db' = [db EXCEPT !.sessions = tx.tables.sessions]
    /\ saved' = MapStore(saved, tx.s.SessionID, tx.s)
    /\ tx' = NoTx
    /\ UNCHANGED <<nonCacheVars, dbRead>>

\* return tx.Commit(), which succeeds. SQLite has one writer at a time and
\* this model one transaction, so the committed tables are those the
\* transaction started from plus its writes.
SaveCommit ==
    /\ tx.pc = "commit"
    /\ db' = tx.tables
    /\ saved' = MapStore(saved, tx.s.SessionID, tx.s)
    /\ tx' = NoTx
    /\ UNCHANGED <<nonCacheVars, dbRead>>

\* Any statement of SaveSession, or its commit, fails: SaveSession returns
\* the error and the deferred tx.Rollback() discards the transaction.
SaveFail ==
    /\ tx.pc \in {"sessions", "delete", "models", "commit"}
    /\ tx' = [pc |-> "none", err |-> "save failed"]
    /\ UNCHANGED <<nonCacheVars, db, dbRead, saved>>

\* DeleteSession(sessionID)
DeleteSession(sid) ==
    /\ tx.pc = "none"
    /\ sid \in DOMAIN db.sessions
    /\ db' = ApplyDelete(db, sid)
    /\ saved' = Without(saved, {sid})
    /\ UNCHANGED <<nonCacheVars, tx, dbRead>>

\* LoadAllSessions, first query: SELECT ... FROM sessions, scanned into
\* SessionStats with empty Models.
LoadQuerySessions ==
    /\ dbRead.pc \in {"idle", "done"}
    /\ dbRead' = [pc |-> "models",
                     sessions |-> [sid \in DOMAIN db.sessions |-> StatsOfRow(db.sessions[sid])]]
    /\ UNCHANGED <<nonCacheVars, db, tx, saved>>

\* The sessions with the session_models rows attached: rows of a session id
\* that the first query did not return are dropped.
AttachModels(sessions, models) ==
    [sid \in DOMAIN sessions |->
        [sessions[sid] EXCEPT !.Models =
            [m \in {k[2] : k \in {x \in DOMAIN models : x[1] = sid}} |-> models[<<sid, m>>]]]]

\* LoadAllSessions, second query: SELECT ... FROM session_models; return.
LoadQueryModels ==
    /\ dbRead.pc = "models"
    /\ dbRead' = [pc |-> "done", sessions |-> AttachModels(dbRead.sessions, db.models)]
    /\ UNCHANGED <<nonCacheVars, db, tx, saved>>

CacheNext ==
    \/ \E s \in SaveInputs, mtime \in 1..MaxMtime : SaveBegin(s, mtime, FileSize)
    \/ SaveUpsertSession
    \/ SaveDeleteModels
    \/ \E m \in RawModels : SaveInsertModel(m)
    \/ SaveUpsertTracker
    \/ SaveCommit
    \/ SaveFail
    \/ \E sid \in {"s1", "s2"} : DeleteSession(sid)
    \/ LoadQuerySessions
    \/ LoadQueryModels

\* ------------------------------------------------------------ the loads
\* The user-visible load: loadData of the CLI and Service.loadSessions of the
\* daemon, which try pipeline.LoadWithCache and fall back to pipeline.Load.
\* One load runs at a time; the session files can change between its steps.

\* The data directory: two session files, in the order WalkDir yields them.
PathSeq == <<"p1/s1.jsonl", "p1/s2.jsonl">>
Paths == {PathSeq[k] : k \in 1..Len(PathSeq)}

\* The DiscoveredFile ScanDir builds for a path.
DiscoveredFile(path) == IF path = "p1/s1.jsonl" THEN FileS1 ELSE FileS2

\* A file with no user message and no API call.
LinesIdle == <<OtherLine>>

\* A file on disk. mode: "ok"; "unreadable" (os.Open fails, os.Stat works);
\* "toolong" (a line exceeds the scanner's 2 MiB buffer: scanner.Err() is
\* bufio.ErrTooLong); "gone" (removed: os.Open and os.Stat fail).
FileOf(lines) == [lines |-> lines, mtime |-> 1, size |-> FileSize, mode |-> "ok"]

\* source.ScanDir: the files present, as DiscoveredFiles (named by path).
ScanDir(files) ==
    LET Present(path) == files[path].mode # "gone" IN SelectSeq(PathSeq, Present)

\* os.Stat(path): ok is err == nil.
Stat(files, path) ==
    [ok |-> files[path].mode # "gone", mtime |-> files[path].mtime, size |-> files[path].size]

\* source.ParseFile on the file as it is on disk now.
ParseOnDisk(files, path) ==
    IF files[path].mode \in {"unreadable", "gone"} THEN [Err |-> "open failed"]
    ELSE IF files[path].mode = "toolong" THEN [Err |-> "token too long"]
    ELSE ParseFile(DiscoveredFile(path), files[path].lines)

ZeroResult ==
    [Sessions |-> {}, TotalFiles |-> 0, ParsedFiles |-> 0, ParseErrors |-> 0,
     FileErrors |-> 0, CacheHits |-> 0, Reparsed |-> 0, Err |-> ""]

\* No load is running. The fields past pc are the locals of a load;
\* processed is the atomic counter of the workers, reporting the values n that
\* workers hold between processed.Add(1) and their call of progressFn, and
\* progress the calls progressFn received, in order; failed
\* and cacheFailed are history: the files an open, stat or read failed on in
\* this load, and the cache operations that failed in it.
IdleLoad ==
    [pc |-> "idle", useCache |-> FALSE, via |-> "", fs0 |-> <<>>, files |-> <<>>,
     tracked |-> <<>>, unchanged |-> {}, toReparse |-> <<>>, results |-> <<>>, i |-> 1,
     processed |-> 0, reporting |-> {}, progress |-> <<>>,
     res |-> ZeroResult, failed |-> {}, cacheFailed |-> {}]

LoadInit ==
    /\ \E lines \in {LinesS2, LinesIdle} :
          fs = [path \in Paths |->
                  IF path = "p1/s1.jsonl" THEN FileOf(LinesS1) ELSE FileOf(lines)]
    /\ fsEvents = 0
    /\ ld = IdleLoad
    /\ loadLog = <<>>

\* ---- the files change from outside

\* Claude Code appends an assistant line to a session file.
AppendToFile(path) ==
    /\ fsEvents < MaxFsEvents
    /\ fs[path].mode # "gone"
    /\ fs[path].lines = LinesS1
    /\ fs' = [fs EXCEPT ![path].lines = LinesS1Grown, ![path].mtime = @ + 1,
                        ![path].size = @ + 1]
    /\ fsEvents' = fsEvents + 1
    /\ UNCHANGED <<nonLoadVars, db, ld, loadLog>>

\* A line longer than 2 MiB is appended to a session file.
AppendLongLine(path) ==
    /\ fsEvents < MaxFsEvents
    /\ fs[path].mode = "ok"
    /\ fs' = [fs EXCEPT ![path].mode = "toolong", ![path].mtime = @ + 1,
                        ![path].size = @ + 1]
    /\ fsEvents' = fsEvents + 1
    /\ UNCHANGED <<nonLoadVars, db, ld, loadLog>>

\* A session file loses its read permission.
ChmodFile(path) ==
    /\ fsEvents < MaxFsEvents
    /\ fs[path].mode \in {"ok", "toolong"}
    /\ fs' = [fs EXCEPT ![path].mode = "unreadable"]
    /\ fsEvents' = fsEvents + 1
    /\ UNCHANGED <<nonLoadVars, db, ld, loadLog>>

\* A session file is removed.
RemoveFile(path) ==
    /\ fsEvents < MaxFsEvents
    /\ fs[path].mode # "gone"
    /\ fs' = [fs EXCEPT ![path].mode = "gone"]
    /\ fsEvents' = fsEvents + 1
    /\ UNCHANGED <<nonLoadVars, db, ld, loadLog>>

\* ---- loadData / loadSessions

\* The load starts, with the cache (useCache) or with --no-cache.
LoadStart(useCache) ==
    /\ ld.pc = "idle"
    /\ Len(loadLog) < MaxLoads
    /\ ld' = [IdleLoad EXCEPT !.pc = IF useCache THEN "open" ELSE "scan",
                              !.useCache = useCache, !.fs0 = fs]
    /\ UNCHANGED <<nonLoadVars, db, fs, fsEvents, loadLog>>

\* The cached path is given up for pipeline.Load; what LoadWithCache had
\* gathered is dropped.
FallBack(l, failure) ==
    [l EXCEPT !.pc = "scan", !.files = <<>>, !.tracked = <<>>, !.unchanged = {}, !.toReparse = <<>>,
              !.results = <<>>, !.i = 1, !.res = ZeroResult, !.failed = {},
              !.processed = 0, !.reporting = {}, !.progress = <<>>,
              !.cacheFailed = @ \cup {failure}]

\* cache, err := store.Open(pipeline.CachePath())
CacheOpen(ok) ==
    /\ ld.pc = "open"
    /\ ld' = IF ok THEN [ld EXCEPT !.pc = "cscan"] ELSE FallBack(ld, "open")
    /\ UNCHANGED <<nonLoadVars, db, fs, fsEvents, loadLog>>

\* The load returns res to its caller.
Return(l, res, via) == [l EXCEPT !.pc = "return", !.res = res, !.via = via]

\* LoadWithCache: source.ScanDir, the empty-directory returns, and
\* cache.GetTrackedFiles.
CachedScan(scanOk, trackedOk) ==
    /\ ld.pc = "cscan"
    /\ LET files == ScanDir(fs) IN
       ld' =
         IF ~scanOk THEN FallBack(ld, "scan")
         ELSE IF Len(files) = 0 THEN Return(ld, ZeroResult, "cache")
         ELSE IF ~trackedOk THEN FallBack(ld, "tracked")
         ELSE [ld EXCEPT !.pc = "diff", !.files = files, !.tracked = db.tracker,
                         !.res = [ZeroResult EXCEPT !.TotalFiles = Len(files)]]
    /\ UNCHANGED <<nonLoadVars, db, fs, fsEvents, loadLog>>

\* LoadWithCache, "Diff: partition into changed and unchanged": the loop over
\* os.Stat. A file whose Stat fails is in neither list.
CachedDiff ==
    /\ ld.pc = "diff"
    /\ LET files == ld.files
           statOk == {files[k] : k \in {j \in 1..Len(files) : Stat(fs, files[j]).ok}}
           Same(path) ==
                /\ path \in statOk
                /\ path \in DOMAIN ld.tracked
                /\ ld.tracked[path].MtimeNs = Stat(fs, path).mtime
                /\ ld.tracked[path].SizeBytes = Stat(fs, path).size
           Changed(path) == path \in statOk /\ ~Same(path)
           unchanged == {path \in statOk : Same(path)}
           toReparse == SelectSeq(files, Changed)
       IN ld' = [ld EXCEPT !.pc = "cached", !.unchanged = unchanged,
                           !.toReparse = toReparse,
                           !.failed = {files[k] : k \in 1..Len(files)} \ statOk,
                           !.res = [@ EXCEPT !.CacheHits = Cardinality(unchanged),
                                             !.Reparsed = Len(toReparse)]]
    /\ UNCHANGED <<nonLoadVars, db, fs, fsEvents, loadLog>>

\* cache.LoadAllSessions() as one read of the committed tables.
CachedSessions(t) ==
    LET all == AttachModels([sid \in DOMAIN t.sessions |-> StatsOfRow(t.sessions[sid])],
                            t.models)
    IN {all[sid] : sid \in DOMAIN all}

\* LoadWithCache: if len(unchanged) > 0, the cached sessions whose FilePath is
\* an unchanged file are appended, each counted in ParsedFiles.
CachedLoad(ok) ==
    /\ ld.pc = "cached"
    /\ LET hits == {c \in CachedSessions(db) : c.FilePath \in ld.unchanged} IN
       ld' =
         IF ld.unchanged = {} THEN [ld EXCEPT !.pc = "parse"]
         ELSE IF ~ok THEN FallBack(ld, "load")
         ELSE [ld EXCEPT !.pc = "parse",
                         !.res = [@ EXCEPT !.Sessions = hits,
                                           !.ParsedFiles = Cardinality(hits)]]
    /\ ok \/ ld.unchanged # {}
    /\ UNCHANGED <<nonLoadVars, db, fs, fsEvents, loadLog>>

\* A worker takes index idx from the work channel and parses the file.
ParseWorker(idx) ==
    /\ ld.pc = "parse"
    /\ idx \in 1..Len(ld.toReparse)
    /\ idx \notin DOMAIN ld.results
    /\ ld' = [ld EXCEPT !.results = MapStore(@, idx, ParseOnDisk(fs, ld.toReparse[idx])),
                        !.processed = @ + 1,
                        !.reporting = @ \cup {ld.processed + 1},
                        !.failed = IF ParseOnDisk(fs, ld.toReparse[idx]).Err # ""
                                   THEN @ \cup {ld.toReparse[idx]} ELSE @]
    /\ UNCHANGED <<nonLoadVars, db, fs, fsEvents, loadLog>>

\* A worker calls progressFn(int(n)+result.CacheHits, result.TotalFiles), or
\* progressFn(int(n), len(toProcess)) in Load, where CacheHits is 0.
ReportProgress(n) ==
    /\ ld.pc = "parse"
    /\ n \in ld.reporting
    /\ ld' = [ld EXCEPT !.reporting = @ \ {n},
                        !.progress = Append(@, [done |-> n + ld.res.CacheHits,
                                                total |-> ld.res.TotalFiles])]
    /\ UNCHANGED <<nonLoadVars, db, fs, fsEvents, loadLog>>

\* wg.Wait() returns: every file has been parsed and reported.
ParseDone ==
    /\ ld.pc = "parse"
    /\ DOMAIN ld.results = 1..Len(ld.toReparse)
    /\ ld.reporting = {}
    /\ ld' = [ld EXCEPT !.pc = IF ld.useCache /\ ld.cacheFailed = {} THEN "collect" ELSE "ucollect",
                        !.i = 1]
    /\ UNCHANGED <<nonLoadVars, db, fs, fsEvents, loadLog>>

\* One turn of the loops that collect the results: the counters and the
\* session of result pr.
Collect(res, pr) ==
    IF pr.Err # "" THEN [res EXCEPT !.FileErrors = @ + 1]
    ELSE [res EXCEPT !.ParsedFiles = @ + 1,
                     !.ParseErrors = @ + pr.ParseErrors,
                     !.Sessions = IF pr.Stats.APICalls > 0 \/ pr.Stats.UserMessages > 0
                                  THEN @ \cup {pr.Stats} ELSE @]

\* LoadWithCache, one turn of "Collect and cache results": a session with
\* data is saved with the file's os.Stat of now, unless Stat fails; the
\* error of SaveSession is dropped.
CachedCollect(saveOk) ==
    /\ ld.pc = "collect"
    /\ ld.i <= Len(ld.toReparse)
    /\ LET pr == ld.results[ld.i]
           path == ld.toReparse[ld.i]
           info == Stat(fs, path)
           saves == /\ pr.Err = ""
                    /\ pr.Stats.APICalls > 0 \/ pr.Stats.UserMessages > 0
                    /\ info.ok
       IN /\ saveOk \/ saves
          /\ ld' = [ld EXCEPT !.res = Collect(@, pr), !.i = @ + 1,
                              !.cacheFailed = IF saves /\ ~saveOk THEN @ \cup {"save"} ELSE @]
          /\ db' = IF saves /\ saveOk THEN ApplySave(db, pr.Stats, info.mtime, info.size)
                   ELSE db
    /\ UNCHANGED <<nonLoadVars, fs, fsEvents, loadLog>>

\* LoadWithCache returns result, nil.
CachedReturn ==
    /\ ld.pc = "collect"
    /\ ld.i > Len(ld.toReparse)
    /\ ld' = Return(ld, ld.res, "cache")
    /\ UNCHANGED <<nonLoadVars, db, fs, fsEvents, loadLog>>

\* pipeline.Load: source.ScanDir; its error is the error of the load.
UncachedScan(scanOk) ==
    /\ ld.pc = "scan"
    /\ LET files == ScanDir(fs) IN
       ld' =
         IF ~scanOk THEN Return(ld, [ZeroResult EXCEPT !.Err = "scanning"], "load")
         ELSE IF Len(files) = 0 THEN Return(ld, ZeroResult, "load")
         ELSE [ld EXCEPT !.pc = "parse", !.files = files, !.toReparse = files,
                         !.res = [ZeroResult EXCEPT !.TotalFiles = Len(files)]]
    /\ UNCHANGED <<nonLoadVars, db, fs, fsEvents, loadLog>>

RECURSIVE CollectAll(_, _, _)
CollectAll(res, results, i) ==
    IF i > Len(results) THEN res
    ELSE CollectAll(Collect(res, results[i]), results, i + 1)

\* pipeline.Load, "Collect results", and its return.
UncachedCollect ==
    /\ ld.pc = "ucollect"
    /\ ld' = Return(ld, CollectAll(ld.res, ld.results, 1), "load")
    /\ UNCHANGED <<nonLoadVars, db, fs, fsEvents, loadLog>>

\* loadData / loadSessions return to the command or to pollOnce.
LoadReturn ==
    /\ ld.pc = "return"
    /\ loadLog' = Append(loadLog, [res |-> ld.res, via |-> ld.via, fs0 |-> ld.fs0, fs1 |-> fs,
                                   failed |-> ld.failed, files |-> ld.files,
                                   cacheFailed |-> ld.cacheFailed])
    /\ ld' = IdleLoad
    /\ UNCHANGED <<nonLoadVars, db, fs, fsEvents>>

LoadNext ==
    \/ \E path \in Paths : AppendToFile(path)
    \/ \E path \in Paths : AppendLongLine(path)
    \/ \E path \in Paths : ChmodFile(path)
    \/ \E path \in Paths : RemoveFile(path)
    \/ \E useCache \in BOOLEAN : LoadStart(useCache)
    \/ \E ok \in BOOLEAN : CacheOpen(ok)
    \/ \E scanOk, trackedOk \in BOOLEAN : CachedScan(scanOk, trackedOk)
    \/ CachedDiff
    \/ \E ok \in BOOLEAN : CachedLoad(ok)
    \/ \E idx \in 1..Len(PathSeq) : ParseWorker(idx)
    \/ \E n \in 1..Len(PathSeq) : ReportProgress(n)
    \/ ParseDone
    \/ \E saveOk \in BOOLEAN : CachedCollect(saveOk)
    \/ CachedReturn
    \/ \E scanOk \in BOOLEAN : UncachedScan(scanOk)
    \/ UncachedCollect
    \/ LoadReturn

\* The parser, the cache and the loads at rest, over a fixed data directory.
LoadRest ==
    /\ fs = [path \in Paths |-> IF path = "p1/s1.jsonl" THEN FileOf(LinesS1) ELSE FileOf(LinesS2)]
    /\ fsEvents = 0
    /\ ld = IdleLoad
    /\ loadLog = <<>>

\* ------------------------------------------------------ the session browser
\* groupSubagents, called on the time-filtered sessions each time the data or
\* the filter changes.

\* The DiscoveredFile of a subagent file <project>/<parent>/subagents/<agent>.jsonl.
SubagentFile(path, parent, agent) ==
    [Path |-> path, SessionID |-> parent \o "/" \o agent, IsSubagent |-> TRUE,
     ParentSession |-> parent]

\* The session files the grouped sessions are parsed from: two main sessions,
\* a main session of another project with the file name of the first, two
\* subagents of the first, and a subagent whose parent is not loaded.
GroupFiles ==
    {[df |-> MainFile("p1/s1.jsonl", "s1"), lines |-> LinesS1],
     [df |-> MainFile("p2/s1.jsonl", "s1"), lines |-> LinesS2],
     [df |-> MainFile("p1/s2.jsonl", "s2"), lines |-> LinesS1Grown],
     [df |-> SubagentFile("p1/s1/subagents/agent-a.jsonl", "s1", "agent-a"), lines |-> LinesS2],
     [df |-> SubagentFile("p1/s1/subagents/agent-b.jsonl", "s1", "agent-b"),
      lines |-> LinesS1Grown],
     [df |-> SubagentFile("p1/s9/subagents/agent-a.jsonl", "s9", "agent-a"), lines |-> LinesS1]}

\* The sessions a load returns over some of GroupFiles.
GroupSessions == {ParseFile(f.df, f.lines).Stats : f \in GroupFiles}

\* parentIDs: the session ids of the sessions that are not subagents.
ParentIDs(sessions) ==
    {sessions[i].SessionID : i \in {j \in 1..Len(sessions) : ~sessions[j].IsSubagent}}

\* The partition loop: subagents whose parent is in the list are appended to
\* subMap[ParentSession]; the other sessions are appended to parents.
RECURSIVE Partition(_, _, _)
Partition(sessions, parentIDs, acc) ==
    IF sessions = <<>> THEN acc
    ELSE LET x == Head(sessions) IN
         Partition(Tail(sessions), parentIDs,
             IF x.IsSubagent /\ x.ParentSession \in parentIDs
             THEN [acc EXCEPT !.subMap =
                      MapStore(@, x.ParentSession,
                               Append(IF x.ParentSession \in DOMAIN @ THEN @[x.ParentSession]
                                      ELSE <<>>, x))]
             ELSE [acc EXCEPT !.parents = Append(@, x)])

\* existing.X += mu.X when the key exists.  A variant that stores mu.
MergeUsage_Overwrite(existing, mu) == mu

\* existing.X += mu.X, for the key of enriched.Models that exists.
MergeUsage(existing, mu) ==
    [APICalls |-> existing.APICalls + mu.APICalls,
     InputTokens |-> existing.InputTokens + mu.InputTokens,
     OutputTokens |-> existing.OutputTokens + mu.OutputTokens,
     CacheCreation5mTokens |-> existing.CacheCreation5mTokens + mu.CacheCreation5mTokens,
     CacheCreation1hTokens |-> existing.CacheCreation1hTokens + mu.CacheCreation1hTokens,
     CacheReadTokens |-> existing.CacheReadTokens + mu.CacheReadTokens,
     EstimatedCost |-> existing.EstimatedCost + mu.EstimatedCost]

\* for modelName, mu := range sub.Models { ... }
MergeModels(models, subModels) ==
    [k \in DOMAIN models \cup DOMAIN subModels |->
        IF k \notin DOMAIN models THEN subModels[k]
        ELSE IF k \notin DOMAIN subModels THEN models[k]
        ELSE MergeUsage(models[k], subModels[k])]

\* One turn of `for _, sub := range subs`.
AddSub(enriched, sub) ==
    [enriched EXCEPT
        !.APICalls = @ + sub.APICalls,
        !.InputTokens = @ + sub.InputTokens,
        !.OutputTokens = @ + sub.OutputTokens,
        !.CacheCreation5mTokens = @ + sub.CacheCreation5mTokens,
        !.CacheCreation1hTokens = @ + sub.CacheCreation1hTokens,
        !.CacheReadTokens = @ + sub.CacheReadTokens,
        !.EstimatedCost = @ + sub.EstimatedCost,
        !.Models = MergeModels(@, sub.Models)]

\* The enriched copy of parent p: the subs are added one after the other.
RECURSIVE Enrich(_, _)
Enrich(p, subagents) ==
    IF subagents = <<>> THEN p ELSE Enrich(AddSub(p, Head(subagents)), Tail(subagents))

\* groupSubagents(sessions)
groupSubagents(sessions) ==
    LET part == Partition(sessions, ParentIDs(sessions), [parents |-> <<>>, subMap |-> <<>>]) IN
    [parents |-> [i \in 1..Len(part.parents) |->
                    IF part.parents[i].SessionID \in DOMAIN part.subMap
                    THEN Enrich(part.parents[i], part.subMap[part.parents[i].SessionID])
                    ELSE part.parents[i]],
     subMap |-> part.subMap]

NoGroup == [parents |-> <<>>, subMap |-> <<>>, called |-> FALSE]

GroupInit ==
    /\ groupIn = <<>>
    /\ groupOut = NoGroup

\* The browser groups the sessions it was handed.
Group ==
    /\ ~groupOut.called
    /\ groupOut' = [parents |-> groupSubagents(groupIn).parents,
                    subMap |-> groupSubagents(groupIn).subMap, called |-> TRUE]
    /\ UNCHANGED <<nonGroupVars, groupIn>>

DataInit == PricingRest /\ ParseInit /\ CacheInit /\ LoadRest /\ GroupInit

\* ------------------------------------------------------ specification

\* The poller goroutine, making at most `polls` polls over the summaries `inputs`.
PollerNext(polls, inputs) ==
    \/ \E stats \in inputs : pollCount < polls /\ PollLoadOk(stats)
    \/ \E err \in LoadErrors : pollCount < polls /\ PollLoadFail(err)
    \/ PollRecordError
    \/ PollUpdate
    \/ PollPublish

\* The /v1/stream handler goroutines and their clients.
StreamNext ==
    \/ \E h \in Conns : StreamConnect(h)
    \/ \E h \in Conns : StreamSendCurrent(h)
    \/ \E h \in Conns : StreamDeliver(h)
    \/ \E h \in Conns : ClientDisconnect(h)
    \/ \E h \in Conns : StreamExit(h)

vars == <<svcVars, pidVars, stopVars, dataVars>>

\* Spec: a daemon process that no stream client connects to.
Init == SvcInit /\ PidInit /\ StopInit /\ DataInit

Next == PollerNext(MaxPolls, StatsInputs)

Spec == Init /\ [][Next]_vars

\* SpecStream: a daemon process with stream clients.
NextStream ==
    \/ PollerNext(StreamPolls, StreamStatsInputs)
    \/ StreamNext

\* The stream clients meet the daemon in its default configuration.
InitStream == SvcInit /\ configured = 0 /\ PidInit /\ StopInit /\ DataInit

SpecStream == InitStream /\ [][NextStream]_vars

\* FairSpecStream: every handler goroutine is scheduled: it gets the read lock
\* for its first write, and its select, which picks at random among the ready
\* cases, does not pass over a cancelled context forever.
StreamFairness ==
    \A h \in Conns :
        /\ WF_vars(StreamSendCurrent(h))
        /\ WF_vars(StreamExit(h))

NextStreamFair ==
    \/ PollerNext(FairPolls, StreamStatsInputs)
    \/ StreamNext

FairSpecStream == InitStream /\ [][NextStreamFair]_vars /\ StreamFairness

\* SpecPid: the `cburn daemon` invocations racing for one PID file; the
\* service inside each process is not run.
InitPid == SvcInit /\ configured = 0 /\ PidInit /\ StopInit /\ DataInit

SpecPid == InitPid /\ [][PidNext]_vars

\* SpecStop: daemons started in the foreground and one `cburn daemon stop`.
NextStop ==
    \/ \E p \in Pids : StartForeground(p)
    \/ \E p \in Pids : EnsureReadPID(p)
    \/ \E p \in Pids : EnsureProbe(p)
    \/ \E p \in Pids : EnsureRemovePID(p)
    \/ \E p \in Pids : EnsureRemoveState(p)
    \/ \E p \in Pids : WritePIDOpen(p)
    \/ \E p \in Pids : WritePIDWrite(p)
    \/ \E p \in Pids : writeState(p)
    \/ \E p \in Pids, bound \in BOOLEAN : Run(p, bound)
    \/ \E p \in Pids : RunListenError(p)
    \/ \E p \in Pids : RunSignalled(p)
    \/ \E p \in Pids : CleanupState(p)
    \/ \E p \in Pids : CleanupPID(p)
    \/ \E p \in Pids : PidReused(p)
    \/ StopNext

SpecStop == InitPid /\ [][NextStop]_vars

\* SpecParse: ParseFile on every file of at most MaxLines lines.
InitParse ==
    /\ PricingRest
    /\ SvcInit /\ configured = 0 /\ PidInit /\ StopInit
    /\ parseLines \in SeqUpTo(LineInputs, MaxLines)
    /\ parseRes = NoResult
    /\ CacheInit
    /\ LoadRest
    /\ GroupInit

NextParse == Parse

\* SpecParseErrors: ParseFile run once on a file of at most MaxLines lines,
\* damaged or sound.
InitParseErrors ==
    /\ PricingRest
    /\ SvcInit /\ configured = 0 /\ PidInit /\ StopInit
    /\ parseLines \in SeqUpTo(DamagedLineInputs, MaxLines)
    /\ parseRes = NoResult
    /\ CacheInit
    /\ LoadRest
    /\ GroupInit

SpecParseErrors == InitParseErrors /\ [][NextParse]_vars

SpecParse == InitParse /\ [][NextParse]_vars

\* SpecCache: the calls of SaveSession, DeleteSession and LoadAllSessions that
\* the processes sharing one cache database make, statement by statement.
InitCache == SvcInit /\ configured = 0 /\ PidInit /\ StopInit /\ DataInit

SpecCache == InitCache /\ [][CacheNext]_vars

\* SpecCachedLoads: the cache calls that cached loads make (SaveSession and
\* LoadAllSessions), over the files of two project directories of which two
\* have the same name.
FileS1b == MainFile("p2/s1.jsonl", "s1")

CachedLoadsNext ==
    \/ \E s \in SaveInputs \cup {ParseFile(FileS1b, LinesS2).Stats}, mtime \in 1..MaxMtime :
            SaveBegin(s, mtime, FileSize)
    \/ SaveUpsertSession
    \/ SaveDeleteModels
    \/ \E m \in RawModels : SaveInsertModel(m)
    \/ SaveUpsertTracker
    \/ SaveCommit
    \/ SaveFail
    \/ LoadQuerySessions
    \/ LoadQueryModels

SpecCachedLoads == InitCache /\ [][CachedLoadsNext]_vars

\* SpecLoad: MaxLoads user-visible loads over a data directory that changes
\* at most MaxFsEvents times, with every cache operation free to fail.
InitLoad ==
    /\ PricingRest
    /\ SvcInit /\ configured = 0 /\ PidInit /\ StopInit
    /\ ParseInit /\ CacheInit /\ LoadInit /\ GroupInit

SpecLoad == InitLoad /\ [][LoadNext]_vars

\* SpecGroup: one call of groupSubagents on up to MaxGroup sessions of
\* different files, in any order.
InitGroup ==
    /\ PricingRest
    /\ SvcInit /\ configured = 0 /\ PidInit /\ StopInit
    /\ ParseInit /\ CacheInit /\ LoadRest
    /\ groupIn \in {q \in SeqUpTo(GroupSessions, MaxGroup) :
                        \A i, j \in 1..Len(q) : i # j => q[i].FilePath # q[j].FilePath}
    /\ groupOut = NoGroup

NextGroup == Group

SpecGroup == InitGroup /\ [][NextGroup]_vars

\* SpecPricing: one LookupPricingAt call, the default price lists with or
\* without a price list for "test-model" (as the package's tests install one).
InitPricing ==
    /\ SvcInit /\ configured = 0 /\ PidInit /\ StopInit
    /\ ParseInit /\ CacheInit /\ LoadRest /\ GroupInit
    /\ defaultPricingHistory \in
          {makeDefaultPricingHistory(DefaultPricing)}
             \cup {[m \in DOMAIN DefaultPricing \cup {"test-model"} |->
                       IF m = "test-model" THEN list
                       ELSE makeDefaultPricingHistory(DefaultPricing)[m]] : list \in PriceLists}
    /\ lookupModel \in LookupModels
    /\ lookupAt \in 0..(MaxEffective + 1)
    /\ lookupRes = NoLookup

NextPricing == Lookup

SpecPricing == InitPricing /\ [][NextPricing]_vars

\* ------------------------------------------------------------ claims
\* Helpers of the claims.

\* The events pollOnce has built so far: those published and the one it is
\* about to hand to publishEvent.
Emitted == IF pollPc = "publish" THEN Append(published, pollEv) ELSE published

IDsIncreasing(seq) ==
    \A i, j \in 1..Len(seq) : i < j => seq[i].ID < seq[j].ID

\* The five diffed fields of snapshot b minus those of snapshot a.
UsageDiff(a, b) ==
    [Sessions |-> b.Sessions - a.Sessions,
     Prompts |-> b.Prompts - a.Prompts,
     APICalls |-> b.APICalls - a.APICalls,
     Tokens |-> b.Tokens - a.Tokens,
     EstimatedCostUSD |-> b.EstimatedCostUSD - a.EstimatedCostUSD]

\* A step of the poller that ends a poll whose load succeeded / failed.
SuccessfulPollStep == pollPc = "loaded" /\ pollErr = "" /\ pollPc' # "loaded"
FailedPollStep == pollPc = "loaded" /\ pollErr # "" /\ pollPc' # "loaded"

\* The last n elements of seq (all of it when it is shorter).
LastN(seq, n) ==
    IF Len(seq) <= n THEN seq ELSE SubSeq(seq, Len(seq) - n + 1, Len(seq))

\* C1: the ids of the published events are strictly increasing in publication
\* order, and the ring served at /v1/events is in strictly increasing id order,
\* whatever mix of successful, failed and no-change polls has run.
C1_EventIDsStrictlyIncreasing ==
    /\ IDsIncreasing(Emitted)
    /\ IDsIncreasing(handleEvents)

\* C1 witness: three polls have run, one of them without an event, and two
\* events are in the ring.
C1_Witness ==
    /\ pollCount = 3
    /\ Len(published) = 2
    /\ Len(handleEvents) = 2

\* C2: every usage_delta carries a non-zero Delta, and a successful poll that
\* leaves the five diffed fields as they were emits no event, consumes no event
\* id and leaves the ring unchanged.
C2_DeltaOnlyWhenNonZero ==
    /\ [](\A i \in 1..Len(Emitted) :
            Emitted[i].Type = "usage_delta" => Emitted[i].Delta # ZeroDelta)
    /\ [][(SuccessfulPollStep /\ hasSnapshot /\ UsageDiff(snapshot, snapshot') = ZeroDelta)
            => /\ pollPc' = "idle"
               /\ nextEventID' = nextEventID
               /\ events' = events
               /\ published' = published]_vars

\* C2 witness: a later successful poll replaced the snapshot (its cache hit
\* rate changed) and no event followed the first one.
C2_Witness ==
    /\ pollCount >= 2
    /\ pollPc = "idle"
    /\ lastError = ""
    /\ Len(published) = 1
    /\ nextEventID = 1
    /\ snapshot # published[1].Snapshot

\* C3: the first successful poll emits one event, a "snapshot" with id 1, also
\* after failed polls; the i-th event emitted after it is a "usage_delta" with
\* id i whose delta is its snapshot minus the previous one.
C3_FirstSnapshotThenDeltas ==
    /\ hasSnapshot => Len(Emitted) >= 1
    /\ ~hasSnapshot => Len(Emitted) = 0
    /\ \A i \in 1..Len(Emitted) :
          /\ Emitted[i].ID = i
          /\ i = 1 => Emitted[i].Type = "snapshot"
          /\ i > 1 => /\ Emitted[i].Type = "usage_delta"
                      /\ Emitted[i].Delta =
                            UsageDiff(Emitted[i - 1].Snapshot, Emitted[i].Snapshot)

\* C3 witness: the first poll failed, the second emitted the snapshot of an
\* empty data directory, the third a usage_delta of 1000 tokens with id 2.
C3_Witness ==
    /\ pollCount = 3
    /\ Len(published) = 2
    /\ published[1].Snapshot.Tokens = 0
    /\ published[2].ID = 2
    /\ published[2].Delta.Tokens = 1000

\* C4: the ring holds at most EventsBuffer events (200 when configured < 1),
\* and they are the most recently published events in publication order.
C4_RingHoldsMostRecent ==
    /\ eventsBuffer = (IF configured < 1 THEN 200 ELSE configured)
    /\ Len(events) <= eventsBuffer
    /\ events = LastN(published, eventsBuffer)

\* C4 witness: more events were published than the ring holds.
C4_Witness ==
    /\ Len(published) > eventsBuffer
    /\ Len(events) = eventsBuffer

\* C6: a poll whose load failed records the error, counts the poll, emits no
\* event, leaves the snapshot, the ring and the next event id as they were and
\* returns to polling; a successful poll clears last_error.
C6_LoadErrorRecorded ==
    /\ [][FailedPollStep
            => /\ lastError' = pollErr
               /\ pollCount' = pollCount + 1
               /\ pollPc' = "idle"
               /\ UNCHANGED <<hasSnapshot, snapshot, nextEventID, events, published>>]_vars
    /\ [][SuccessfulPollStep => lastError' = ""]_vars

\* C6 witness: a load failed after a successful poll: the error is recorded
\* beside the snapshot and the event of the earlier poll.
C6_Witness ==
    /\ lastError # ""
    /\ hasSnapshot
    /\ Len(events) = 1
    /\ pollCount = 2
    /\ pollPc = "idle"

\* The connections whose handler is registered as a subscriber.
Subscribed == {h \in Conns : connPc[h] \in {"registered", "streaming"}}

\* What the client of h has been or will be sent after the initial snapshot:
\* the events written after it, then the events waiting in the channel.
AfterCurrent(h) ==
    (IF connOut[h] = <<>> THEN <<>> ELSE Tail(connOut[h])) \o chanBuf[h]

\* A step that is a call of publishEvent.
PublishStep == pollPc = "publish" /\ pollPc' # "publish"

\* C5: publishEvent never waits for a subscriber: it can always run, appends
\* the event to the ring, hands it to every subscriber whose channel has room
\* and drops it for, and only for, the subscribers whose channel is full.
C5_PublishNeverBlocks ==
    /\ [](pollPc = "publish" => ENABLED PollPublish)
    /\ [][PublishStep
            => /\ pollPc' = "idle"
               /\ Len(events') >= 1 /\ events'[Len(events')] = pollEv
               /\ \A h \in Subscribed :
                    IF Len(chanBuf[h]) < SubChanCap
                    THEN chanBuf'[h] = Append(chanBuf[h], pollEv)
                    ELSE chanBuf'[h] = chanBuf[h]]_vars

\* C5 witness: the newest event is in the ring and in the channel of one
\* subscriber, and was dropped for another subscriber whose channel was full.
C5_Witness ==
    /\ Len(published) >= 2
    /\ events[Len(events)] = published[Len(published)]
    /\ \E g, h \in Subscribed :
          /\ Len(chanBuf[g]) = SubChanCap
          /\ \A i \in 1..Len(chanBuf[g]) : chanBuf[g][i] # published[Len(published)]
          /\ \A i \in 1..Len(connOut[g]) : connOut[g][i].ID # published[Len(published)].ID
          /\ chanBuf[h] # <<>>
          /\ chanBuf[h][Len(chanBuf[h])] = published[Len(published)]

C8_CancelledHandlerUnregisters ==
    /\ \A h \in Conns : connCtxDone[h] ~> connPc[h] = "done"
    /\ [](snapshotStatus.SubscriberCount = Cardinality(Subscribed))
    /\ [](\A h \in Conns :
            connPc[h] = "done" => \A id \in DOMAIN subs : subs[id] # h)
    /\ [][\A h \in Conns :
            connPc[h] = "done" => connPc'[h] = "done" /\ chanBuf'[h] = chanBuf[h]]_vars

\* C8 witness: one client has disconnected and its handler has returned, while
\* another subscriber has since been handed an event: the count is back to 1.
C8_Witness ==
    \E g, h \in Conns :
        /\ connPc[g] = "done"
        /\ connPc[h] = "streaming"
        /\ chanBuf[h] # <<>>
        /\ snapshotStatus.SubscriberCount = 1

\* A step of process p inside ensureDaemonNotRunning (not its being killed).
EnsureStep(p) ==
    /\ procPc[p] \in {"ensure", "probe", "rmpid", "rmstate"}
    /\ procPc'[p] # procPc[p]
    /\ procPc'[p] # "crashed"

\* C9: ensureDaemonNotRunning fails exactly when the PID file exists and the
\* recorded pid is alive (signal 0 gives nil or EPERM), leaving both files; in
\* every other case where the file exists it removes the PID file and the
\* sidecar and succeeds; without a file it succeeds.
C9_EnsureNotRunning ==
    [][\A p \in Pids : EnsureStep(p) =>
          /\ procPc'[p] = "failed"
                => /\ procPc[p] = "probe"
                   /\ Signal0(procRead[p].pid) \in {"nil", "EPERM"}
                   /\ UNCHANGED <<pidFile, stateFile>>
          /\ (procPc[p] = "ensure" /\ pidFile = Absent)
                => /\ procPc'[p] = "checked"
                   /\ UNCHANGED <<pidFile, stateFile>>
          /\ (procPc[p] = "probe" /\ Signal0(procRead[p].pid) = "ESRCH")
                => procPc'[p] = "rmpid"
          /\ procPc[p] = "rmpid" => pidFile' = Absent /\ procPc'[p] = "rmstate"
          /\ procPc[p] = "rmstate" => stateFile' = Absent /\ procPc'[p] = "checked"]_vars

\* C10: for one PID file at most one daemon process is serving and polling at
\* any time, and the PID file names it.
C10_SingleInstance ==
    /\ Cardinality({p \in Pids : procPc[p] = "running"}) <= 1
    /\ \A p \in Pids : procPc[p] = "running" => pidFile = PidOf(p)

\* A step of `cburn daemon stop`.
StopStep == stopPc' # stopPc

\* C11: stop sends one signal, SIGTERM, to the pid it read from the PID file,
\* and probes liveness at most MaxStopPolls times. A probe that finds the
\* process gone makes stop remove the PID file, then the sidecar, and return
\* nil. When the deadline passes with the process found alive by every probe,
\* stop returns an error, sends nothing more and leaves both files as they are.
C11_StopTermThenPoll ==
    /\ [](/\ Len(stopSignals) <= 1
          /\ \A i \in 1..Len(stopSignals) :
                stopSignals[i] = <<"SIGTERM", stopPid.pid>>
          /\ stopPolls <= MaxStopPolls
          /\ stopPc \in {"poll", "sleep", "rmpid", "rmstate", "done"}
                => Len(stopSignals) = 1
          /\ stopPc = "done" => stopErr = "")
    /\ [][(stopPc = "read" /\ StopStep /\ readPID.kind = "pid") => stopPid' = pidFile]_vars
    /\ [][(stopPc = "poll" /\ StopStep /\ ~processAlive(stopPid.pid))
            => stopPc' = "rmpid"]_vars
    /\ [][(stopPc = "rmpid" /\ StopStep) => (pidFile' = Absent /\ stopPc' = "rmstate")]_vars
    /\ [][(stopPc = "rmstate" /\ StopStep) => (stateFile' = Absent /\ stopPc' = "done")]_vars
    /\ [][(stopPc = "poll" /\ StopStep /\ processAlive(stopPid.pid))
            => stopPc' = "sleep"]_vars
    /\ [][(stopPc = "sleep" /\ StopStep /\ stopPolls = MaxStopPolls)
            => /\ stopPc' = "failed"
               /\ stopErr' = "did not exit in time"
               /\ UNCHANGED <<stopSignals, pidFile, stateFile, procPc>>]_vars
    /\ [][(StopStep /\ stopPc' = "done") => stopPolls <= MaxStopPolls]_vars

\* C11 witness: the daemon was running when stop read its pid, took the
\* SIGTERM and exited on its own before the second probe; stop removed the
\* files and returned nil.
C11_Witness ==
    /\ stopPc = "done"
    /\ stopPolls = 2
    /\ stopSignals = <<<<"SIGTERM", stopPid.pid>>>>
    /\ procPc[stopPid.pid] = "exited"
    /\ pidFile = Absent
    /\ stateFile = Absent

\* C11 witness of the deadline: the daemon is still running after the last
\* probe, stop has failed and both files still name the daemon.
C11_WitnessTimeout ==
    /\ stopPc = "failed"
    /\ stopErr = "did not exit in time"
    /\ procPc[stopPid.pid] = "running"
    /\ pidFile = stopPid
    /\ stateFile = stopPid

\* The sum of f over the set S of arguments.
RECURSIVE SumFun(_, _)
SumFun(f, S) ==
    IF S = {} THEN 0
    ELSE LET x == CHOOSE y \in S : TRUE IN f[x] + SumFun(f, S \ {x})

\* The positions of the assistant lines that carry usage for message id.
UsageLines(lines, id) ==
    {i \in 1..Len(lines) :
        /\ lines[i].type = "assistant"
        /\ lines[i].valid
        /\ lines[i].id = id
        /\ lines[i].usage.present}

IdsWithUsage(lines) == {id \in MessageIDs : UsageLines(lines, id) # {}}

\* The last line, in file order, that carries usage for message id.
LastUsageLine(lines, id) ==
    lines[CHOOSE i \in UsageLines(lines, id) : \A j \in UsageLines(lines, id) : j <= i]

\* The five token classes of a call, of a rollup or of a session.
TokenClasses(r) ==
    <<r.InputTokens, r.OutputTokens, r.CacheCreation5mTokens, r.CacheCreation1hTokens,
      r.CacheReadTokens>>

\* The token classes summed over the last usage line of every message id.
LastWinsTokens(lines) ==
    LET ids == IdsWithUsage(lines)
        last == [id \in ids |-> APICallOf(LastUsageLine(lines, id))]
    IN <<SumFun([id \in ids |-> last[id].InputTokens], ids),
         SumFun([id \in ids |-> last[id].OutputTokens], ids),
         SumFun([id \in ids |-> last[id].CacheCreation5mTokens], ids),
         SumFun([id \in ids |-> last[id].CacheCreation1hTokens], ids),
         SumFun([id \in ids |-> last[id].CacheReadTokens], ids)>>

\* C12: ParseFile deduplicates assistant lines by message.id, last line wins:
\* api_calls is the number of distinct message ids that carried usage, and the
\* session's five token totals are the sums, over those ids, of the usage of
\* the last line in file order that carried usage for the id.
C12_LastWinsDedup ==
    parseRes # NoResult =>
        /\ parseRes.Err = ""
        /\ parseRes.Stats.APICalls = Cardinality(IdsWithUsage(parseLines))
        /\ TokenClasses(parseRes.Stats) = LastWinsTokens(parseLines)

\* C12 witness: a file whose first and last line carry different usage for
\* the same message id has been parsed, and the totals are those of the last.
C12_Witness ==
    /\ parseRes # NoResult
    /\ Len(parseLines) = 3
    /\ parseLines[1] = AssistantLine(2500, "msg1", "claude-opus-4-6", UsageLegacy)
    /\ parseLines[3] = AssistantLine(2500, "msg1", "claude-opus-4-6", UsageSplit)
    /\ parseRes.Stats.APICalls = 1
    /\ parseRes.Stats.InputTokens = 16

\* LoadAllSessions returns, and its first query read the sessions table as it
\* still is.
LoadReturns ==
    /\ dbRead.pc = "models"
    /\ dbRead'.pc = "done"
    /\ dbRead.sessions = [sid \in DOMAIN db.sessions |-> StatsOfRow(db.sessions[sid])]

\* C14: a SessionStats saved with SaveSession comes back from LoadAllSessions
\* under its session id with equal scalar fields, start_time and end_time
\* included, and an equal models map.
C14_CacheRoundTrip ==
    [][LoadReturns =>
        \A sid \in DOMAIN saved :
            /\ sid \in DOMAIN dbRead'.sessions
            /\ dbRead'.sessions[sid] = saved[sid]]_vars

\* A step that ends SaveSession with an error.
SaveFailStep == tx.pc # "none" /\ tx'.pc = "none" /\ tx'.err # ""

\* A step that ends SaveSession with nil.
SaveCommitStep == tx.pc = "commit" /\ tx'.pc = "none" /\ tx'.err = ""

\* C16: the committed tables, which are what every reader sees, change only
\* when a SaveSession commits, and then all three at once to the result of the
\* whole save (sessions row upserted, the session's session_models rows
\* replaced, file_tracker row upserted), or when DeleteSession runs; a
\* SaveSession that fails at any statement, or at its commit, leaves the three
\* tables as they were.
C16_SaveSessionAtomic ==
    /\ [][db' # db =>
            \/ /\ tx.pc = "commit"
               /\ db' = ApplySave(db, tx.s, tx.mtime, tx.size)
            \/ /\ tx.pc = "none"
               /\ \E sid \in DOMAIN db.sessions : db' = ApplyDelete(db, sid)]_vars
    /\ [][SaveCommitStep => db' = ApplySave(db, tx.s, tx.mtime, tx.size)]_vars
    /\ [][SaveFailStep => db' = db]_vars

\* C16 witness: a session that is in the cache is being saved again with more
\* models; the transaction has written all three tables and the committed
\* tables still hold the earlier save, whole.
C16_Witness ==
    /\ tx.pc = "commit"
    /\ tx.s.SessionID = "s1"
    /\ "s1" \in DOMAIN db.sessions
    /\ tx.tables.sessions # db.sessions
    /\ tx.tables.models # db.models
    /\ tx.tables.tracker # db.tracker
    /\ db = ApplySave(EmptyDB, saved["s1"], db.tracker["p1/s1.jsonl"].MtimeNs, FileSize)

\* The session_models rows of session sid, as a models map.
ModelsOf(t, sid) ==
    [m \in {k[2] : k \in {x \in DOMAIN t.models : x[1] = sid}} |-> t.models[<<sid, m>>]]

\* C17: in the committed tables every session_models row names a session_id
\* that is in sessions; the sessions are those saved and not deleted since, and
\* the session_models rows of each are exactly the models of its latest save;
\* DeleteSession removes the sessions row and every session_models row of the id.
C17_ReferentialIntegrity ==
    /\ [](/\ \A k \in DOMAIN db.models : k[1] \in DOMAIN db.sessions
          /\ DOMAIN db.sessions = DOMAIN saved
          /\ \A sid \in DOMAIN saved : ModelsOf(db, sid) = saved[sid].Models)
    /\ [][\A sid \in DOMAIN db.sessions :
            (tx.pc = "none" /\ sid \notin DOMAIN db'.sessions)
                => /\ \A k \in DOMAIN db'.models : k[1] # sid
                   /\ \A k \in DOMAIN db.models : k[1] # sid => k \in DOMAIN db'.models]_vars

\* C17 witness: s2 was saved and then deleted (its file_tracker row is what is
\* left of it), and s1, which a reader saw with two models, was saved again
\* with one and has one session_models row.
C17_Witness ==
    /\ "s2" \notin DOMAIN db.sessions
    /\ "p1/s2.jsonl" \in DOMAIN db.tracker
    /\ "s1" \in DOMAIN db.sessions
    /\ dbRead.pc = "done"
    /\ "s1" \in DOMAIN dbRead.sessions
    /\ Cardinality(DOMAIN dbRead.sessions["s1"].Models) = 2
    /\ Cardinality(DOMAIN ModelsOf(db, "s1")) = 1

\* Load k ran LoadWithCache to its end, no cache operation failed in it and
\* no file changed while it ran.
CleanCachedLoad(k) ==
    /\ loadLog[k].via = "cache"
    /\ loadLog[k].cacheFailed = {}
    /\ loadLog[k].fs0 = loadLog[k].fs1

\* C15: when a cached load follows a cached load and no file was created,
\* modified or deleted since the first began, the second reports every selected
\* file as a cache hit, reparses none and returns the sessions of the first.
C15_IncrementalCorrectness ==
    \A k \in 1..(Len(loadLog) - 1) :
        (/\ CleanCachedLoad(k)
         /\ CleanCachedLoad(k + 1)
         /\ loadLog[k + 1].fs0 = loadLog[k].fs1)
            => /\ loadLog[k + 1].res.CacheHits = loadLog[k + 1].res.TotalFiles
               /\ loadLog[k + 1].res.Reparsed = 0
               /\ loadLog[k + 1].res.Sessions = loadLog[k].res.Sessions

\* The file at path, as it is in files, has a user message or an API call.
HasData(files, path) ==
    /\ ParseOnDisk(files, path).Err = ""
    /\ \/ ParseOnDisk(files, path).Stats.APICalls > 0
       \/ ParseOnDisk(files, path).Stats.UserMessages > 0

\* C19: a load that selected files returns no error; file_errors counts the
\* selected files whose open, stat or read failed in that load; none of them
\* has a session in the result; and every other selected file that has data
\* has its session in the result.
C19_FileErrorsCounted ==
    \A k \in 1..Len(loadLog) :
        LET e == loadLog[k] IN
        e.files # <<>> =>
            /\ e.res.Err = ""
            /\ e.res.FileErrors = Cardinality(e.failed)
            /\ \A x \in e.res.Sessions : x.FilePath \notin e.failed
            /\ \A j \in 1..Len(e.files) :
                  (e.files[j] \notin e.failed /\ e.fs0 = e.fs1 /\ HasData(e.fs0, e.files[j]))
                      => \E x \in e.res.Sessions : x.FilePath = e.files[j]

\* The sessions pipeline.Load returns over the files as they are in files.
UncachedSessions(files) ==
    {ParseOnDisk(files, path).Stats : path \in {q \in Paths : HasData(files, q)}}

\* The cache operations that can fail in a load.
CacheFailures == {"open", "tracked", "load", "save"}

\* C18: a load in which a cache operation failed (opening the cache, reading
\* the tracked files, loading the cached sessions, saving a session) returns an
\* error only when its scan failed, and otherwise returns the sessions that
\* pipeline.Load returns over the same files.
C18_CacheFailureDegrades ==
    \A k \in 1..Len(loadLog) :
        LET e == loadLog[k] IN
        (e.cacheFailed \cap CacheFailures # {} /\ e.fs0 = e.fs1 /\ e.res.Err = "")
            => e.res.Sessions = UncachedSessions(e.fs0)

\* The fields a session and a model rollup have in common.
RollupFields ==
    {"APICalls", "InputTokens", "OutputTokens", "CacheCreation5mTokens",
     "CacheCreation1hTokens", "CacheReadTokens", "EstimatedCost"}

\* The rollups of session s sum to its totals.
RollupConsistent(s) ==
    \A f \in RollupFields :
        SumFun([k \in DOMAIN s.Models |-> s.Models[k][f]], DOMAIN s.Models) = s[f]

\* C13: every SessionStats that ParseFile returned, that LoadAllSessions
\* returned from the cache, that a load returned or that groupSubagents
\* returned has, for api_calls, for each of the five token classes and for the
\* cost, a session total equal to the sum of that field over its models map.
C13_RollupsSumToTotals ==
    /\ parseRes.Err = "" => RollupConsistent(parseRes.Stats)
    /\ dbRead.pc = "done" => \A sid \in DOMAIN dbRead.sessions : RollupConsistent(dbRead.sessions[sid])
    /\ \A k \in 1..Len(loadLog) : \A x \in loadLog[k].res.Sessions : RollupConsistent(x)
    /\ \A j \in 1..Len(groupOut.parents) : RollupConsistent(groupOut.parents[j])

\* The sum of a sequence of numbers.
RECURSIVE SumSeq(_)
SumSeq(nums) == IF nums = <<>> THEN 0 ELSE Head(nums) + SumSeq(Tail(nums))

\* The subagents of parent p in the list, in the order of the list.
SubsOf(sessions, p) ==
    LET IsSub(x) == x.IsSubagent /\ x.ParentSession = p.SessionID
    IN SelectSeq(sessions, IsSub)

\* The rollup of model k in session s, zero when s did not use k.
UsageOf(s, k) == IF k \in DOMAIN s.Models THEN s.Models[k] ELSE ZeroUsage

\* Entry e is parent p enriched with subagents: totals and per-model
\* rollups are p's plus the sums over the subagents, the rest is p's.
EnrichedCopy(e, p, subagents) ==
    /\ \A f \in RollupFields :
          e[f] = p[f] + SumSeq([i \in 1..Len(subagents) |-> subagents[i][f]])
    /\ DOMAIN e.Models =
          DOMAIN p.Models \cup UNION {DOMAIN subagents[i].Models : i \in 1..Len(subagents)}
    /\ \A k \in DOMAIN e.Models : \A f \in RollupFields :
          e.Models[k][f] =
              UsageOf(p, k)[f] + SumSeq([i \in 1..Len(subagents) |-> UsageOf(subagents[i], k)[f]])
    /\ \A f \in (DOMAIN p) \ (RollupFields \cup {"Models"}) : e[f] = p[f]

\* C20: for every session of the input that is not a subagent and has
\* subagents in the input, groupSubagents returns one entry for it, which is
\* the session with api_calls, the five token classes and the cost increased
\* by the sums over its subagents and with the models map summed key by key,
\* and the returned map holds, under its session id, exactly its subagents as
\* they were in the input.
C20_SubagentGrouping ==
    groupOut.called =>
        \A i \in 1..Len(groupIn) :
            LET p == groupIn[i]
                subagents == SubsOf(groupIn, p)
                entries == {j \in 1..Len(groupOut.parents) :
                               groupOut.parents[j].FilePath = p.FilePath}
            IN (~p.IsSubagent /\ subagents # <<>>) =>
                /\ Cardinality(entries) = 1
                /\ \A j \in entries : EnrichedCopy(groupOut.parents[j], p, subagents)
                /\ p.SessionID \in DOMAIN groupOut.subMap
                /\ groupOut.subMap[p.SessionID] = subagents

\* groupSubagents returned for a parent with two subagents, one of which used
\* a model the parent used and one a model the parent did not use.
C20_Witness ==
    /\ groupOut.called
    /\ \E i \in 1..Len(groupIn) :
          /\ ~groupIn[i].IsSubagent
          /\ Len(SubsOf(groupIn, groupIn[i])) = 2
          /\ \E j \in 1..Len(groupOut.parents) :
                /\ groupOut.parents[j].FilePath = groupIn[i].FilePath
                /\ Cardinality(DOMAIN groupOut.parents[j].Models) = 2
                /\ Cardinality(DOMAIN groupIn[i].Models) = 1

\* The price list of the model name m normalizes to, empty when it has none.
PriceListOf(m) ==
    IF NormalizeModelName(m) \in DOMAIN defaultPricingHistory
    THEN defaultPricingHistory[NormalizeModelName(m)] ELSE <<>>

\* The positions of the versions of list that are in effect at time t.
InEffect(list, t) == {i \in 1..Len(list) : list[i].EffectiveFrom <= t}

\* C21: a lookup at a non-zero time t returns the last version of the model's
\* price list whose effective_from is at or before t; a lookup at the zero
\* time returns the last version of the list; and found is true exactly when
\* the normalized model has prices (a non-empty price list or a default price).
C21_LookupAt ==
    lookupRes.called =>
        LET list == PriceListOf(lookupModel) IN
        /\ lookupRes.ok <=> (list # <<>> \/ NormalizeModelName(lookupModel) \in DOMAIN DefaultPricing)
        /\ (list # <<>> /\ lookupAt = 0) => lookupRes.pricing = list[Len(list)].Pricing
        /\ (list # <<>> /\ lookupAt # 0 /\ InEffect(list, lookupAt) # {}) =>
              \E i \in InEffect(list, lookupAt) :
                  /\ \A j \in InEffect(list, lookupAt) : j <= i
                  /\ lookupRes.pricing = list[i].Pricing

\* A lookup by a dated name, at the very time the second of two versions takes
\* effect, returned the second version.
C21_Witness ==
    /\ lookupRes.called
    /\ lookupModel = "test-model-20250101"
    /\ Len(PriceListOf(lookupModel)) = 2
    /\ PriceListOf(lookupModel)[1].EffectiveFrom > 0
    /\ PriceListOf(lookupModel)[1].EffectiveFrom < PriceListOf(lookupModel)[2].EffectiveFrom
    /\ lookupAt = PriceListOf(lookupModel)[2].EffectiveFrom
    /\ lookupRes.ok
    /\ lookupRes.pricing = TestPricing(2)

\* The line is malformed JSON or carries an unparseable timestamp.
Damaged(line) == ~line.valid \/ line.badTs

\* The lines of a file that are not damaged, in order.
Sound(lines) == LET Ok(line) == ~Damaged(line) IN SelectSeq(lines, Ok)

\* C22: ParseFile returns no error and a SessionStats for any file; its
\* parse_errors is the number of lines that are malformed JSON or carry an
\* unparseable timestamp; and those lines are skipped, so the SessionStats is
\* the one of the file without them.
C22_ParseErrorsCounted ==
    parseRes # NoResult =>
        /\ parseRes.Err = ""
        /\ parseRes.ParseErrors = Len(parseLines) - Len(Sound(parseLines))
        /\ parseRes.Stats = ParseFile(ParsedFile, Sound(parseLines)).Stats

\* The sum of field f over the sessions of a list.
TotalOf(sessions, f) == SumSeq([i \in 1..Len(sessions) |-> sessions[i][f]])

\* C30: the parents groupSubagents returns carry, in total, the api_calls,
\* the tokens of each class and the estimated cost of the sessions it was
\* given: nothing is lost and nothing is counted twice.
C30_GroupingConservesTotals ==
    groupOut.called =>
        \A f \in RollupFields : TotalOf(groupOut.parents, f) = TotalOf(groupIn, f)

\* The session ids of the committed sessions rows whose file_path is path.
SessionsOfPath(path) == {sid \in DOMAIN db.sessions : db.sessions[sid].file_path = path}

\* C29: every path file_tracker holds has exactly one sessions row whose
\* file_path is that path.
C29_OneSessionPerTrackedFile ==
    \A path \in DOMAIN db.tracker : Cardinality(SessionsOfPath(path)) = 1

\* The usage a sessions row records.
MetricsOfRow(row) ==
    <<row.user_messages, row.api_calls, row.input_tokens, row.output_tokens,
      row.cache_creation_5m, row.cache_creation_1h, row.cache_read_tokens, row.estimated_cost>>

\* The usage of a SessionStats.
MetricsOf(x) ==
    <<x.UserMessages, x.APICalls, x.InputTokens, x.OutputTokens, x.CacheCreation5mTokens,
      x.CacheCreation1hTokens, x.CacheReadTokens, x.EstimatedCost>>

\* The file at path is, on disk, as file_tracker records it: a load would
\* classify it as unchanged.
TrackedAsIs(path) ==
    /\ path \in DOMAIN db.tracker
    /\ fs[path].mode = "ok"
    /\ db.tracker[path].MtimeNs = fs[path].mtime
    /\ db.tracker[path].SizeBytes = fs[path].size

\* C28: whenever file_tracker records for a path the mtime and size the file
\* has on disk, the cached session of that path has the usage that parsing the
\* file as it is yields.
C28_CacheCoherence ==
    \A path \in Paths :
        TrackedAsIs(path) =>
            \E sid \in DOMAIN db.sessions :
                /\ db.sessions[sid].file_path = path
                /\ MetricsOfRow(db.sessions[sid]) = MetricsOf(ParseOnDisk(fs, path).Stats)

\* table records for path the mtime and size the file has in files.
TrackedIn(table, files, path) ==
    /\ path \in DOMAIN table
    /\ table[path].MtimeNs = files[path].mtime
    /\ table[path].SizeBytes = files[path].size

\* A cached load is returning, no cache operation failed in it and no file
\* changed since it began.
CachedLoadReturns ==
    /\ ld.pc = "return"
    /\ ld.via = "cache"
    /\ ld.cacheFailed = {}
    /\ ld.fs0 = fs

\* C25: a cached load counts as cache hits the selected files whose mtime and
\* size equal their file_tracker entry, and as reparsed the other selected
\* files (entry different or absent); and after it every file it reparsed
\* successfully has a file_tracker entry with the file's mtime and size, so
\* that the next load classifies it as unchanged.
C25_TrackerClassification ==
    CachedLoadReturns =>
        LET selected == {ld.files[k] : k \in 1..Len(ld.files)}
            hits == {path \in selected : TrackedIn(ld.tracked, fs, path)}
        IN /\ ld.res.CacheHits = Cardinality(hits)
           /\ ld.res.Reparsed = Cardinality(selected \ hits)
           /\ \A path \in selected \ hits :
                 ParseOnDisk(fs, path).Err = "" => TrackedIn(db.tracker, fs, path)

\* C23: when a load returns, having had N files to parse and H cache hits,
\* progressFn was called N times, the done values it received are exactly
\* H+1 .. H+N, each once, every total it received is the number of selected
\* files, and the largest done it received is that total.
C23_ProgressCallback ==
    (ld.pc = "return" /\ ld.res.Err = "") =>
        LET N == Len(ld.toReparse)
            H == ld.res.CacheHits
            calls == ld.progress
        IN /\ Len(calls) = N
           /\ {calls[k].done : k \in 1..Len(calls)} = (H + 1)..(H + N)
           /\ \A k \in 1..Len(calls) : calls[k].total = Len(ld.files)
           /\ N > 0 => \E k \in 1..Len(calls) : calls[k].done = Len(ld.files)

\* C24: in every state, which a handler can observe since no lock is held
\* between two steps, every event id that has been assigned belongs to an
\* event that publishEvent has appended to the ring.
C24_PollAtomic ==
    \A id \in 1..nextEventID : \E k \in 1..Len(published) : published[k].ID = id

\* C27: every usage_delta a stream handler wrote after its initial snapshot
\* was assigned its id after the handler read that snapshot, so its delta is
\* not already contained in the snapshot.
C27_StreamNoDoubleCount ==
    \A h \in Conns : \A k \in 2..Len(connOut[h]) :
        connOut[h][k].Type = "usage_delta" => connOut[h][k].ID > connSeen[h]

\* The sum of two deltas.
AddDelta(a, b) ==
    [Sessions |-> a.Sessions + b.Sessions,
     Prompts |-> a.Prompts + b.Prompts,
     APICalls |-> a.APICalls + b.APICalls,
     Tokens |-> a.Tokens + b.Tokens,
     EstimatedCostUSD |-> a.EstimatedCostUSD + b.EstimatedCostUSD]

\* The sum of the deltas of a sequence of events.
RECURSIVE SumDeltas(_)
SumDeltas(evs) == IF evs = <<>> THEN ZeroDelta ELSE AddDelta(Head(evs).Delta, SumDeltas(Tail(evs)))

\* C26: over the five diffed fields, the snapshot of every usage_delta is the
\* snapshot of the event emitted before it plus its delta, and the snapshot
\* of the first event plus the deltas of all events is the daemon's current
\* snapshot, whatever failed or no-change polls ran in between.
C26_DeltaConsistency ==
    /\ \A i \in 2..Len(Emitted) :
          Emitted[i].Type = "usage_delta" =>
              UsageDiff(ZeroSnapshot, Emitted[i].Snapshot) =
                  AddDelta(UsageDiff(ZeroSnapshot, Emitted[i - 1].Snapshot), Emitted[i].Delta)
    /\ Emitted # <<>> =>
          UsageDiff(ZeroSnapshot, snapshot) =
              AddDelta(UsageDiff(ZeroSnapshot, Emitted[1].Snapshot), SumDeltas(Emitted))

\* Three polls ran, the first emitted a snapshot with usage and only one of
\* the next two a usage_delta: the other failed or found no change.
C26_Witness ==
    /\ pollCount = 3
    /\ pollPc = "idle"
    /\ Len(published) = 2
    /\ published[1].Snapshot.Tokens > 0
    /\ published[2].Type = "usage_delta"
    /\ published[2].Delta # ZeroDelta
====
